---- MODULE Spec2Model ----
(***************************************************************************)
(* The dependency-injection container of lib.di (src/_/Container_bk.py):   *)
(* bindings, singleton instance cache, aliases, reflective construction    *)
(* (_build), handler invocation (call), with the class registry of the     *)
(* autoloader (src/_/autoload.py) as fallback resolver.                    *)
(*                                                                         *)
(* A string key is a sequence of its dot-separated segments, so that       *)
(* "'.' in key" is Len(key) > 1 and a class is canonicalised to            *)
(* module segments followed by its name.  An object is its position in     *)
(* heap; two references are the same instance iff they are the same        *)
(* position.                                                               *)
(***************************************************************************)
EXTENDS Integers, Sequences, FiniteSets, TLC

VARIABLES
    bindings,        \* Container._bindings:       key -> concrete
    instances,       \* Container._instances:      key -> instance or None
    aliases,         \* Container._aliases:        key -> key
    binding_params,  \* Container._binding_params: key -> (name -> value)
    is_singleton,    \* Container._is_singleton:   key -> BOOLEAN
    registry_fqn,    \* Autoloader._registry_fqn:    fqn -> class
    registry_simple, \* Autoloader._registry_simple: short name -> class
    loaded_modules,  \* Autoloader._loaded_modules:  module name -> module
    paths,           \* Autoloader._paths: the roots, in the order they were added
    sys_modules,     \* sys.modules: module name -> module, for the names scan assigns
    tree,            \* the file system under the roots: file -> unit or NoFile
    runs,            \* per file: how often its module code ran since the last clear
    scanned,         \* no path was added and no file changed since the last scan
    edited,          \* a file changed since the tables were last empty
    routes,          \* Router: the routes, in the order they were added
    middlewares,     \* Router: middleware name -> middleware
    attributes,      \* per model: BaseModel._attributes
    states,          \* per model: AbstractModel._states, in insertion order
    data,            \* JsonDatasource._data
    json_file,       \* the JSON file of the datasource
    read_only,       \* AbstractDatasource.read_only
    registry,        \* ServiceManager._registry: abstract -> service
    heap,            \* the objects constructed so far, in construction order
    last,            \* the call that ran last: its arguments, locals and outcome
    firstRet,        \* per key: what the first make since its registration returned
    ops,             \* number of calls made so far
    pc,              \* per thread: position inside make
    tkey,            \* per thread: the local `key` of make
    tinst            \* per thread: the local `instance` of make

cvars == <<bindings, instances, aliases, binding_params, is_singleton>>
rvars == <<registry_fqn, registry_simple, loaded_modules, paths, sys_modules,
          tree, runs, scanned, edited>>
tvars == <<pc, tkey, tinst>>
dvars == <<routes, middlewares>>
avars == <<attributes, states, data, json_file, read_only, registry>>
vars == <<bindings, instances, aliases, binding_params, is_singleton,
          registry_fqn, registry_simple, loaded_modules, paths, sys_modules,
          tree, runs, scanned, edited, routes, middlewares, attributes, states, data,
          json_file, read_only, registry, heap, last, firstRet, ops,
          pc, tkey, tinst>>

(***************************************************************************)
(* Bounds of the exploration.                                              *)
(***************************************************************************)
MaxOps == 4
MaxObjs == 4
MaxBuildOps == 2

(***************************************************************************)
(* Values: what a parameter, a cache slot or a return value can hold.      *)
(***************************************************************************)
None == [tag |-> "none", n |-> 0]
EmptyMap == [tag |-> "empty", n |-> 0]
DefaultValue == [tag |-> "default", n |-> 0]
Lit(n) == [tag |-> "lit", n |-> n]
Obj(id) == [tag |-> "obj", n |-> id]

NoParams == <<>>

(***************************************************************************)
(* References a caller can pass as abstract or concrete: a class, a        *)
(* string, a factory function or an already built object.                 *)
(***************************************************************************)
TypeRef(c) == [kind |-> "class", cls |-> c, s |-> <<>>, n |-> 0]
Str(segs) == [kind |-> "str", cls |-> "", s |-> segs, n |-> 0]
Func(f) == [kind |-> "func", cls |-> f, s |-> <<>>, n |-> 0]
Inst(id) == [kind |-> "obj", cls |-> "", s |-> <<>>, n |-> id]
NoRef == [kind |-> "none", cls |-> "", s |-> <<>>, n |-> 0]

(***************************************************************************)
(* The classes of the application.  Dep, Svc, Opt, Var, KwReq and Loc      *)
(* stand for application services; Mw, Home and Test are                   *)
(* ResponseMiddleware, Home and TestController.                            *)
(***************************************************************************)
Classes == {"Dep", "Svc", "Opt", "Mw", "Home", "Test", "Var", "KwReq", "Loc"}

ClassModule == [c \in Classes |->
    CASE c = "Home" -> <<"app", "Home">>
      [] c = "Test" -> <<"app", "TestController">>
      [] c = "Mw"   -> <<"app", "ResponseMiddleware">>
      [] OTHER      -> <<"m">>]

ClassName == [c \in Classes |->
    CASE c = "Test" -> "TestController"
      [] c = "Mw"   -> "ResponseMiddleware"
      [] OTHER      -> c]

\* whether the class defines __init__ itself (else it inherits object.__init__)
OwnInit == [c \in Classes |-> c # "Mw"]

Param(name, kind, ann, dflt) == [name |-> name, kind |-> kind, ann |-> ann, dflt |-> dflt]

SelfParam == Param("self", "POSITIONAL_OR_KEYWORD", "", FALSE)

\* inspect.signature(object.__init__) is (self, /, *args, **kwargs)
ObjectInitSig ==
    << Param("self", "POSITIONAL_ONLY", "", FALSE),
       Param("args", "VAR_POSITIONAL", "", FALSE),
       Param("kwargs", "VAR_KEYWORD", "", FALSE) >>

\* inspect.signature(cls.__init__): the declared parameters, self included
CtorSig(c) ==
    CASE c = "Dep"   -> << SelfParam >>
      [] c = "Loc"   -> << SelfParam >>
      [] c = "Svc"   -> << SelfParam,
                           Param("dep", "POSITIONAL_OR_KEYWORD", "Dep", FALSE),
                           Param("p", "POSITIONAL_OR_KEYWORD", "", FALSE),
                           Param("config", "POSITIONAL_OR_KEYWORD", "", FALSE),
                           Param("tmo", "POSITIONAL_OR_KEYWORD", "int", TRUE) >>
      [] c = "Opt"   -> << SelfParam,
                           Param("h", "POSITIONAL_OR_KEYWORD", "Loc", FALSE),
                           Param("mw", "POSITIONAL_OR_KEYWORD", "Mw", FALSE),
                           Param("g", "POSITIONAL_OR_KEYWORD", "Loc", TRUE) >>
      [] c = "Home"  -> << SelfParam,
                           Param("container", "POSITIONAL_OR_KEYWORD", "", FALSE),
                           Param("request", "POSITIONAL_OR_KEYWORD", "", FALSE),
                           Param("params", "VAR_KEYWORD", "", FALSE) >>
      [] c = "Test"  -> << SelfParam,
                           Param("config", "POSITIONAL_OR_KEYWORD", "", TRUE),
                           Param("timeout", "POSITIONAL_OR_KEYWORD", "int", TRUE) >>
      [] c = "Var"   -> << SelfParam,
                           Param("a", "POSITIONAL_OR_KEYWORD", "", FALSE),
                           Param("rest", "VAR_POSITIONAL", "", FALSE) >>
      [] c = "KwReq" -> << SelfParam,
                           Param("rest", "VAR_POSITIONAL", "", FALSE),
                           Param("k", "KEYWORD_ONLY", "", FALSE) >>
      [] OTHER       -> ObjectInitSig

\* the dotted names importlib resolves: every importable class under its own
\* module, and a class re-exported by a package under the package's name
ModuleTable ==
    (<<"m", "Dep">> :> "Dep") @@ (<<"m", "Svc">> :> "Svc") @@
    (<<"m", "Opt">> :> "Opt") @@ (<<"m", "Var">> :> "Var") @@
    (<<"m", "KwReq">> :> "KwReq") @@
    (<<"app", "ResponseMiddleware", "ResponseMiddleware">> :> "Mw") @@
    (<<"app", "TestController", "TestController">> :> "Test") @@
    (<<"pkg", "Dep">> :> "Dep")

\* inspect.signature of the functions of the application: two factory
\* functions and two route handlers (hSvc declares the parameters of Svc's
\* constructor, index those of Home.index bound to its object)
FuncSig(f) ==
    CASE f = "mkDep"   -> << Param("c", "POSITIONAL_OR_KEYWORD", "", FALSE),
                             Param("kw", "VAR_KEYWORD", "", FALSE) >>
      [] f = "mkPlain" -> << Param("kw", "VAR_KEYWORD", "", FALSE) >>
      [] f = "hSvc"    -> Tail(CtorSig("Svc"))
      [] f = "hOpt"    -> Tail(CtorSig("Opt"))
      [] OTHER         -> Tail(CtorSig("Home"))

\* the class of the object a factory function returns
FuncReturns == ("mkDep" :> "Dep") @@ ("mkPlain" :> "Dep")

BuiltinTypes == {"int", "str", "float", "bool", "list", "dict", "tuple", "set", "bytes"}

Range(f) == {f[x] : x \in DOMAIN f}

(***************************************************************************)
(* Container._normalize_key: a class becomes "<module>.<name>", anything   *)
(* else its str().                                                         *)
(***************************************************************************)
Fqn(c) == ClassModule[c] \o <<ClassName[c]>>

\* a _normalize_key that keyed a class by its bare __name__
NormalizeKeyByName(key) ==
    IF key.kind = "class"
    THEN <<ClassName[key.cls]>>
    ELSE IF key.kind = "str" THEN key.s
    ELSE <<"<object>">>

NormalizeKey(key) ==
    IF key.kind = "class"
    THEN Fqn(key.cls)
    ELSE IF key.kind = "str" THEN key.s
    ELSE <<"<object>">>

(***************************************************************************)
(* The file system the autoloader scans (src/_/autoload.py).  A root is a  *)
(* directory, given by where it lies and by its own name; a file is a      *)
(* .py file under a root, given by its path below the root without the     *)
(* suffix; a unit is what executing the file does: the classes it defines, *)
(* the classes it imports from elsewhere, and whether its module code      *)
(* raises an Exception.                                                    *)
(***************************************************************************)
Root(at, name) == [at |-> at, name |-> name]

AppRoot == Root("srv", "app")

LibRoot == Root("srv", "lib")

OptAppRoot == Root("opt", "app")

Roots == {AppRoot, LibRoot, OptAppRoot}

File(root, path) == [root |-> root, path |-> path]

Unit(defines, imports, raises) ==
    [defines |-> defines, imports |-> imports, raises |-> raises]

NoFile == [absent |-> TRUE]

FooUnit == Unit({"Foo"}, {}, FALSE)

BarUnit == Unit({"Bar"}, {"Foo"}, FALSE)

BrokenUnit == Unit({"Foo"}, {}, TRUE)

\* sorted(directory.iterdir()) with the recursion into sub/ (lines 158-206):
\* Foo.py, _cfg.py, sub/Foo.py
DirOrder == << <<"Foo">>, <<"_cfg">>, <<"sub", "Foo">> >>

Files ==
    {File(AppRoot, <<"Foo">>), File(AppRoot, <<"_cfg">>), File(AppRoot, <<"sub", "Foo">>),
     File(LibRoot, <<"Foo">>), File(OptAppRoot, <<"Foo">>)}

\* the text a file or directory name starts with, as far as the patterns look
NamePrefix == ("Foo" :> "") @@ ("Home" :> "") @@ ("sub" :> "") @@ ("_cfg" :> "_")

\* Autoloader._should_exclude (lines 136-141) with EXCLUDE_PATTERNS (lines 71-77)
ShouldExclude(name) == NamePrefix[name] \in {"_", ".", "ep_", "cfg_", "test_"}

\* module_name of line 171: the path relative to the parent of the root
ModuleName(file) == <<file.root.name>> \o file.path

\* the class object that executing `file` creates for the class `name`
Type(file, name) == [root |-> file.root, path |-> file.path, name |-> name]

\* The state scan works on.
ScanState(fqn, simple, loaded, sysm, rn) ==
    [fqn |-> fqn, simple |-> simple, loaded |-> loaded, sysm |-> sysm,
     runs |-> rn, failed |-> {}, visited |-> <<>>]

\* lines 235-244: the classes whose __module__ is the module are registered
RegisterFqn(reg, module_name, file, unit) ==
    LET new == {module_name \o <<n>> : n \in unit.defines} IN
    [k \in DOMAIN reg \cup new |->
        IF k \in new THEN Type(file, k[Len(k)]) ELSE reg[k]]

RegisterSimple(reg, file, unit) ==
    [k \in DOMAIN reg \cup unit.defines |->
        IF k \in unit.defines THEN Type(file, k) ELSE reg[k]]

\* Autoloader._import_module that registers a module before running it
ImportModuleEarly(s, module_name, file, unit) ==
    IF module_name \in DOMAIN s.loaded THEN s
    ELSE [s EXCEPT !.sysm = (module_name :> file) @@ @,
                   !.loaded = (module_name :> file) @@ @,
                   !.runs = [@ EXCEPT ![file] = @ + 1],
                   !.fqn = RegisterFqn(@, module_name, file, unit),
                   !.simple = RegisterSimple(@, file, unit),
                   !.failed = IF unit.raises THEN @ \cup {file} ELSE @,
                   !.visited = Append(@, file)]

\* Autoloader._import_module (lines 208-249)
ImportModule(s, module_name, file, unit) ==
    IF module_name \in DOMAIN s.loaded THEN [s EXCEPT !.visited = Append(@, file)]
    ELSE IF unit.raises
         THEN [s EXCEPT !.sysm = (module_name :> file) @@ @,
                        !.runs = [@ EXCEPT ![file] = @ + 1],
                        !.failed = @ \cup {file},
                        !.visited = Append(@, file)]
         ELSE [s EXCEPT !.sysm = (module_name :> file) @@ @,
                        !.loaded = (module_name :> file) @@ @,
                        !.runs = [@ EXCEPT ![file] = @ + 1],
                        !.fqn = RegisterFqn(@, module_name, file, unit),
                        !.simple = RegisterSimple(@, file, unit),
                        !.visited = Append(@, file)]

\* a file the scan of its root reaches: it exists, and neither its name nor
\* the name of a directory above it is excluded (lines 162-167, 189, 206)
Reached(tr, file) ==
    /\ file \in DOMAIN tr
    /\ tr[file] # NoFile
    /\ \A i \in 1..Len(file.path) : ~ShouldExclude(file.path[i])

\* Autoloader._scan_directory (lines 143-206), from the i-th item on
RECURSIVE ScanDirectory(_, _, _, _)
ScanDirectory(s, tr, root, i) ==
    IF i > Len(DirOrder) THEN s
    ELSE ScanDirectory(IF Reached(tr, File(root, DirOrder[i]))
                       THEN ImportModule(s, ModuleName(File(root, DirOrder[i])),
                                         File(root, DirOrder[i]), tr[File(root, DirOrder[i])])
                       ELSE s,
                       tr, root, i + 1)

\* Autoloader.scan (lines 130-134), from the i-th path on
RECURSIVE ScanPaths(_, _, _, _)
ScanPaths(s, tr, ps, i) ==
    IF i > Len(ps) THEN s
    ELSE ScanPaths(ScanDirectory(s, tr, ps[i], 1), tr, ps, i + 1)

\* The autoloader of the application after its constructor scanned app/.
AppScanned ==
    /\ loaded_modules = (<<"app", "Home">> :> File(AppRoot, <<"Home">>))
    /\ paths = <<AppRoot>>
    /\ sys_modules = (<<"app", "Home">> :> File(AppRoot, <<"Home">>))
    /\ tree = (File(AppRoot, <<"Home">>) :> Unit({"Home"}, {}, FALSE))
    /\ runs = (File(AppRoot, <<"Home">>) :> 1)
    /\ scanned = TRUE
    /\ edited = FALSE

\* No router has been made: no route and no middleware is registered.
NoRouter ==
    /\ routes = <<>>
    /\ middlewares = <<>>

(***************************************************************************)
(* Dictionaries of the models and of the datasource.  A dict is a function *)
(* on the keys in use whose value is Missing where the dict has no entry   *)
(* (what dict.get returns for it).                                         *)
(***************************************************************************)
Models == {"m1", "m2"}

Keys == {"id", "all"}

Vals == {"1", "2"}

Missing == "None"

NoDict == [k \in Keys |-> Missing]

\* the keys of JsonDatasource._data: str(id) of a record, or the attribute
\* names of a pushed model
DataKeys == Keys \cup {"1", "2", "3"}

\* an entry of _data: none, a record (a dict) or the plain value of a
\* pushed attribute
Entry(tag, v, rec) == [tag |-> tag, v |-> v, rec |-> rec]

NoData == [k \in DataKeys |-> Entry("none", Missing, NoDict)]

\* No model, datasource or service manager has been constructed.
NoModels ==
    /\ attributes = [m \in Models |-> NoDict]
    /\ states = [m \in Models |-> <<>>]
    /\ data = NoData
    /\ json_file = [exists |-> FALSE, content |-> NoData]
    /\ read_only = TRUE
    /\ registry = <<>>

\* Autoloader.get: fully-qualified table first, then the short-name table
AutoloaderGet(name) ==
    IF name \in DOMAIN registry_fqn THEN registry_fqn[name]
    ELSE IF Len(name) = 1 /\ name[1] \in DOMAIN registry_simple
         THEN registry_simple[name[1]]
    ELSE ""

\* Autoloader.get_class
AutoloaderGetClass(fqn) == AutoloaderGet(fqn)

(***************************************************************************)
(* Container._resolve_fqn.  ok = FALSE is the AppException of lines 263    *)
(* and 276.                                                                *)
(***************************************************************************)
ResolveFqn(ref) ==
    IF Len(ref) = 1
    THEN IF ref \in DOMAIN bindings
         THEN [ok |-> TRUE, sym |-> bindings[ref]]
         ELSE IF ref[1] \in DOMAIN registry_simple
              THEN [ok |-> TRUE, sym |-> TypeRef(registry_simple[ref[1]])]
              ELSE [ok |-> FALSE, sym |-> NoRef]
    ELSE IF ref \in DOMAIN ModuleTable
         THEN [ok |-> TRUE, sym |-> TypeRef(ModuleTable[ref])]
         ELSE IF AutoloaderGetClass(ref) # ""
              THEN [ok |-> TRUE, sym |-> TypeRef(AutoloaderGetClass(ref))]
              ELSE [ok |-> FALSE, sym |-> NoRef]

(***************************************************************************)
(* Python's binding of a call's arguments to a signature (without self):   *)
(* "ok", "KeywordTypeError" (a TypeError whose message contains            *)
(* "keyword argument") or "TypeError" (any other TypeError).               *)
(***************************************************************************)
Positional == {"POSITIONAL_OR_KEYWORD", "POSITIONAL_ONLY"}

BindArguments(sig, args, kwargs) ==
    LET pos == SelectSeq(sig, LAMBDA p : p.kind \in Positional)
        byName == {sig[j].name : j \in {i \in 1..Len(sig) :
                       sig[i].kind \in {"POSITIONAL_OR_KEYWORD", "KEYWORD_ONLY"}}}
        hasVarKw == \E j \in 1..Len(sig) : sig[j].kind = "VAR_KEYWORD"
        hasVarPos == \E j \in 1..Len(sig) : sig[j].kind = "VAR_POSITIONAL"
        unexpected == \E n \in DOMAIN kwargs : n \notin byName /\ ~hasVarKw
        multiple == \E j \in 1..Len(pos) :
                        j <= Len(args) /\ pos[j].kind = "POSITIONAL_OR_KEYWORD"
                        /\ pos[j].name \in DOMAIN kwargs
        tooMany == Len(args) > Len(pos) /\ ~hasVarPos
        missing == \/ \E j \in 1..Len(pos) :
                        j > Len(args) /\ ~pos[j].dflt /\ pos[j].name \notin DOMAIN kwargs
                   \/ \E j \in 1..Len(sig) :
                        sig[j].kind = "KEYWORD_ONLY" /\ ~sig[j].dflt
                        /\ sig[j].name \notin DOMAIN kwargs
    IN  IF unexpected THEN "KeywordTypeError"
        ELSE IF multiple \/ tooMany \/ missing THEN "TypeError"
        ELSE "ok"

\* concrete(*args, **kwargs): a class without __init__ of its own takes no
\* arguments at all ("T() takes no arguments")
Invoke(cls, args, kwargs) ==
    IF ~OwnInit[cls]
    THEN IF Len(args) = 0 /\ DOMAIN kwargs = {} THEN "ok" ELSE "TypeError"
    ELSE BindArguments(Tail(CtorSig(cls)), args, kwargs)

(***************************************************************************)
(* The container state that make, _resolve and _build read and write:      *)
(* c.inst is _instances, c.heap the objects.  Every result carries the     *)
(* state it leaves, also when it raises.                                   *)
(***************************************************************************)
AppExceptions ==
    {"SymbolNotFound", "InvalidRecipe", "BuildFailure", "MethodNotFound", "NotCallable"}

Result(c, err, ret, bparams, args, kwargs, attempt) ==
    [c |-> c, err |-> err, ret |-> ret, bparams |-> bparams,
     args |-> args, kwargs |-> kwargs, attempt |-> attempt]

Raise(c, err) == Result(c, err, None, NoParams, <<>>, <<>>, 0)

Return(c, v) == Result(c, "", v, NoParams, <<>>, <<>>, 0)

\* a newly constructed object of class cls that received args and kwargs
Construct(c, cls, params, args, kwargs, passedArgs, passedKwargs, attempt) ==
    LET obj == [cls |-> cls, args |-> passedArgs, kwargs |-> passedKwargs]
        c2 == [c EXCEPT !.heap = Append(c.heap, obj)]
    IN  Result(c2, "", Obj(Len(c2.heap)), params, args, kwargs, attempt)

\* dict.update: binding params overlaid with the call's params
Merge(stored, override) ==
    [n \in DOMAIN stored \cup DOMAIN override |->
        IF n \in DOMAIN override THEN override[n] ELSE stored[n]]

\* dict.get(key, {})
GetOr(map, key) == IF key \in DOMAIN map THEN map[key] ELSE NoParams

PutArg(acc, prm, v) ==
    IF prm.kind \in Positional
    THEN [acc EXCEPT !.args = Append(acc.args, v)]
    ELSE [acc EXCEPT !.kwargs = (prm.name :> v) @@ acc.kwargs]

\* whether _build and call try to resolve the annotation through make
\* (lines 163-177 and 422-430)
Injectable(prm) == prm.ann # "" /\ prm.ann \notin BuiltinTypes

\* a _build that consulted the declared default before the annotation
BuildArgDefaultFirst(prm, params, dep) ==
    IF prm.name \in DOMAIN params THEN params[prm.name]
    ELSE IF prm.dflt THEN DefaultValue
    ELSE IF Injectable(prm) /\ dep.err = "" THEN dep.ret
    ELSE IF prm.name = "args" THEN EmptyMap
    ELSE IF prm.name = "kwargs" THEN EmptyMap
    ELSE IF prm.name \in {"config", "settings", "options"} THEN EmptyMap
    ELSE None

\* a _build without the special handling of lines 215-221
BuildArgPlainNames(prm, params, dep) ==
    IF prm.name \in DOMAIN params THEN params[prm.name]
    ELSE IF Injectable(prm) /\ dep.err = "" THEN dep.ret
    ELSE IF prm.dflt THEN DefaultValue
    ELSE IF prm.name = "args" THEN EmptyMap
    ELSE IF prm.name = "kwargs" THEN EmptyMap
    ELSE None

(***************************************************************************)
(* The value _build selects for one parameter (lines 154-228); dep is the  *)
(* outcome of make(param.annotation).                                      *)
(***************************************************************************)
BuildArg(prm, params, dep) ==
    IF prm.name \in DOMAIN params THEN params[prm.name]
    ELSE IF Injectable(prm) /\ dep.err = "" THEN dep.ret
    ELSE IF prm.dflt THEN DefaultValue
    ELSE IF prm.name = "args" THEN EmptyMap
    ELSE IF prm.name = "kwargs" THEN EmptyMap
    ELSE IF prm.name \in {"config", "settings", "options"} THEN EmptyMap
    ELSE None

(***************************************************************************)
(* The value call selects for one parameter (lines 413-468).               *)
(***************************************************************************)
CallArg(prm, parameters, dep) ==
    IF prm.name \in DOMAIN parameters THEN parameters[prm.name]
    ELSE IF Injectable(prm) /\ dep.err = "" THEN dep.ret
    ELSE IF prm.dflt THEN DefaultValue
    ELSE IF prm.name = "args" THEN EmptyMap
    ELSE IF prm.name = "kwargs" THEN EmptyMap
    ELSE None

RECURSIVE Make(_, _, _, _)

\* no make(param.annotation) was attempted for the parameter
NoDep(c) == Raise(c, "NotAttempted")

\* make(param.annotation) of _build and call (lines 163-177 and 422-430):
\* attempted only when no value was supplied by name
Dep(c, prm, params) ==
    IF prm.name \notin DOMAIN params /\ Injectable(prm)
    THEN Make(c, TypeRef(prm.ann), FALSE, NoParams)
    ELSE NoDep(c)

\* one iteration of the parameter loop of _build (lines 150-228); the
\* attempted make leaves its effects on the cache
BuildStep(acc, prm, params, dep) ==
    IF prm.name = "self" THEN acc
    ELSE PutArg([acc EXCEPT !.c = dep.c], prm, BuildArg(prm, params, dep))

\* one iteration of the parameter loop of call (lines 412-468)
CallStep(acc, prm, parameters, dep) ==
    PutArg([acc EXCEPT !.c = dep.c], prm, CallArg(prm, parameters, dep))

(***************************************************************************)
(* The parameter loop of Container._build (lines 150-228), from parameter  *)
(* i on.  acc = [c, args, kwargs].                                         *)
(***************************************************************************)
RECURSIVE AssembleBuild(_, _, _, _)
AssembleBuild(acc, sig, i, params) ==
    IF i > Len(sig) THEN acc
    ELSE AssembleBuild(BuildStep(acc, sig[i], params, Dep(acc.c, sig[i], params)),
                       sig, i + 1, params)

(***************************************************************************)
(* The parameter loop of Container.call (lines 412-468).                   *)
(***************************************************************************)
RECURSIVE AssembleCall(_, _, _, _)
AssembleCall(acc, sig, i, parameters) ==
    IF i > Len(sig) THEN acc
    ELSE AssembleCall(CallStep(acc, sig[i], parameters, Dep(acc.c, sig[i], parameters)),
                      sig, i + 1, parameters)

NewAcc(c) == [c |-> c, args |-> <<>>, kwargs |-> <<>>]

(***************************************************************************)
(* The invocation at the end of Container._build (lines 230-245): with     *)
(* positional and keyword arguments; after a TypeError that mentions       *)
(* "keyword argument" with the positional ones only, then with none.       *)
(***************************************************************************)
InvokeWith(cls, params, asm) ==
    LET try1 == Invoke(cls, asm.args, asm.kwargs)
        try2 == Invoke(cls, asm.args, <<>>)
        try3 == Invoke(cls, <<>>, <<>>)
    IN  IF try1 = "ok"
        THEN Construct(asm.c, cls, params, asm.args, asm.kwargs, asm.args, asm.kwargs, 1)
        ELSE IF try1 = "KeywordTypeError"
        THEN IF try2 = "ok"
             THEN Construct(asm.c, cls, params, asm.args, asm.kwargs, asm.args, <<>>, 2)
             ELSE IF try3 = "ok"
             THEN Construct(asm.c, cls, params, asm.args, asm.kwargs, <<>>, <<>>, 3)
             ELSE Result(asm.c, "BuildFailure", None, params, asm.args, asm.kwargs, 3)
        ELSE Result(asm.c, "BuildFailure", None, params, asm.args, asm.kwargs, 1)

\* Container._build from line 139 on, r being the outcome of _resolve_fqn
BuildSymbol(c, r, params) ==
    IF ~r.ok THEN Raise(c, "SymbolNotFound")
    ELSE IF r.sym.kind # "class" THEN Raise(c, "InvalidRecipe")
    ELSE InvokeWith(r.sym.cls, params,
                    AssembleBuild(NewAcc(c), CtorSig(r.sym.cls), 1, params))

(***************************************************************************)
(* Container._build (lines 133-245).                                       *)
(***************************************************************************)
Build(c, concrete, params) ==
    IF concrete.kind = "str"
    THEN BuildSymbol(c, ResolveFqn(concrete.s), params)
    ELSE BuildSymbol(c, [ok |-> TRUE, sym |-> concrete], params)

(***************************************************************************)
(* Container._resolve (lines 104-131).                                     *)
(***************************************************************************)
Resolve(c, abstract, params) ==
    LET target == IF abstract \in DOMAIN aliases THEN aliases[abstract] ELSE abstract
        concrete == IF target \in DOMAIN bindings THEN bindings[target] ELSE Str(target)
    IN  IF concrete.kind = "func"
        THEN \* concrete(self, **params) or concrete(**params)
             Construct(c, FuncReturns[concrete.cls], params, <<>>, <<>>,
                       IF Len(FuncSig(concrete.cls)) > 0
                          /\ FuncSig(concrete.cls)[1].name \in {"container", "c", "cont"}
                       THEN <<[tag |-> "container", n |-> 0]>> ELSE <<>>,
                       params, 0)
        ELSE IF concrete.kind = "obj" THEN Return(c, Obj(concrete.n))
        ELSE Build(c, concrete, params)

\* make's test of lines 47-56: a dotted string that resolves to a class
DottedClass(abstract) ==
    /\ abstract.kind = "str"
    /\ Len(abstract.s) > 1
    /\ ResolveFqn(abstract.s).ok
    /\ ResolveFqn(abstract.s).sym.kind = "class"

\* the local `key` of make when it reaches the cache check (line 71)
MakeKey(abstract) ==
    IF DottedClass(abstract)
    THEN NormalizeKey(ResolveFqn(abstract.s).sym)
    ELSE NormalizeKey(abstract)

\* make with force_build on a bound name (lines 80-93), rr being the outcome
\* of _resolve_fqn on a recipe given by name
ForceBuildNamed(c, key, rr, bparams) ==
    IF ~rr.ok THEN Raise(c, "SymbolNotFound")
    ELSE IF rr.sym.kind = "class" THEN Build(c, rr.sym, bparams)
    ELSE Resolve(c, key, bparams)

ForceBuild(c, key, concrete, bparams) ==
    IF concrete.kind = "str" THEN ForceBuildNamed(c, key, ResolveFqn(concrete.s), bparams)
    ELSE IF concrete.kind = "class" THEN Build(c, concrete, bparams)
    ELSE Resolve(c, key, bparams)

\* an end of make that cached the instance of a forced build too
StoreSingletonForced(key, force_build, res) ==
    IF res.err = "" /\ key \in DOMAIN res.c.inst
    THEN [res EXCEPT !.c.inst[key] = res.ret]
    ELSE res

\* the end of make (lines 98-102): a registered singleton is cached
StoreSingleton(key, force_build, res) ==
    IF res.err = "" /\ key \in DOMAIN res.c.inst /\ ~force_build
    THEN [res EXCEPT !.c.inst[key] = res.ret]
    ELSE res

\* a make that discarded the key's cache entry before resolving again
MakeKeyedDropFirst(c, key, force_build, bparams) ==
    IF key \in DOMAIN c.inst /\ c.inst[key] # None /\ ~force_build
    THEN Return(c, c.inst[key])
    ELSE StoreSingleton(key, force_build,
                        IF force_build /\ key \in DOMAIN bindings
                        THEN ForceBuild([c EXCEPT !.inst = [k \in DOMAIN c.inst \ {key} |-> c.inst[k]]],
                                        key, bindings[key], bparams)
                        ELSE Resolve([c EXCEPT !.inst = [k \in DOMAIN c.inst \ {key} |-> c.inst[k]]],
                                     key, bparams))

\* make from the cache check on (lines 71-102)
MakeKeyed(c, key, force_build, bparams) ==
    IF key \in DOMAIN c.inst /\ c.inst[key] # None /\ ~force_build
    THEN Return(c, c.inst[key])
    ELSE StoreSingleton(key, force_build,
                        IF force_build /\ key \in DOMAIN bindings
                        THEN ForceBuild(c, key, bindings[key], bparams)
                        ELSE Resolve(c, key, bparams))

(***************************************************************************)
(* Container.make (lines 40-102).                                          *)
(***************************************************************************)
Make(c, abstract, force_build, override_params) ==
    IF force_build /\ DottedClass(abstract)
    THEN Build(c, ResolveFqn(abstract.s).sym, override_params)
    ELSE MakeKeyed(c, MakeKey(abstract), force_build,
                   Merge(GetOr(binding_params, MakeKey(abstract)), override_params))

(***************************************************************************)
(* The calls.  Each records itself in last.                                *)
(***************************************************************************)
NoCall ==
    [op |-> "none", abstract |-> NoRef, concrete |-> NoRef, params |-> NoParams,
     force |-> FALSE, key |-> <<>>, err |-> "", ret |-> None, bparams |-> NoParams,
     args |-> <<>>, kwargs |-> <<>>, attempt |-> 0, fresh |-> FALSE,
     built |-> 0, method |-> "", form |-> "", fn |-> "none"]

Put(map, key, v) == (key :> v) @@ map

Drop(map, key) == [k \in DOMAIN map \ {key} |-> map[k]]

\* Container.bind (lines 310-321)
Bind(abstract, concrete, params) ==
    LET key == NormalizeKey(abstract) IN
    /\ ops < MaxOps
    /\ bindings' = Put(bindings, key, concrete)
    /\ is_singleton' = Put(is_singleton, key, FALSE)
    /\ binding_params' = IF params # NoParams
                         THEN Put(binding_params, key, params) ELSE binding_params
    /\ last' = [NoCall EXCEPT !.op = "bind", !.abstract = abstract,
                              !.concrete = concrete, !.params = params, !.key = key]
    /\ firstRet' = Drop(firstRet, key)
    /\ ops' = ops + 1
    /\ UNCHANGED <<instances, aliases, heap, rvars, dvars, avars, tvars>>

\* Container.singleton (lines 323-341)
Singleton(abstract, concrete, params) ==
    LET key == NormalizeKey(abstract)
        is_instance == concrete.kind \notin {"str", "class", "func"}
    IN
    /\ ops < MaxOps
    /\ bindings' = Put(bindings, key, concrete)
    /\ instances' = Put(instances, key, IF is_instance THEN Obj(concrete.n) ELSE None)
    /\ is_singleton' = Put(is_singleton, key, TRUE)
    /\ binding_params' = IF params # NoParams
                         THEN Put(binding_params, key, params) ELSE binding_params
    /\ last' = [NoCall EXCEPT !.op = "singleton", !.abstract = abstract,
                              !.concrete = concrete, !.params = params, !.key = key]
    /\ firstRet' = Drop(firstRet, key)
    /\ ops' = ops + 1
    /\ UNCHANGED <<aliases, heap, rvars, dvars, avars, tvars>>

\* Container.factory (lines 343-350): bind under another name
Factory(abstract, concrete, params) ==
    LET key == NormalizeKey(abstract) IN
    /\ ops < MaxOps
    /\ bindings' = Put(bindings, key, concrete)
    /\ is_singleton' = Put(is_singleton, key, FALSE)
    /\ binding_params' = IF params # NoParams
                         THEN Put(binding_params, key, params) ELSE binding_params
    /\ last' = [NoCall EXCEPT !.op = "factory", !.abstract = abstract,
                              !.concrete = concrete, !.params = params, !.key = key]
    /\ firstRet' = Drop(firstRet, key)
    /\ ops' = ops + 1
    /\ UNCHANGED <<instances, aliases, heap, rvars, dvars, avars, tvars>>

\* Container.alias (lines 292-301)
Alias(alias, fqn) ==
    LET alias_key == NormalizeKey(alias)
        fqn_key == NormalizeKey(fqn)
    IN
    /\ ops < MaxOps
    /\ aliases' = Put(aliases, alias_key, fqn_key)
    /\ last' = [NoCall EXCEPT !.op = "alias", !.abstract = alias,
                              !.concrete = fqn, !.key = alias_key]
    /\ firstRet' = Drop(firstRet, alias_key)
    /\ ops' = ops + 1
    /\ UNCHANGED <<bindings, instances, binding_params, is_singleton, heap, rvars, dvars, avars, tvars>>

\* a call of Container.make (lines 40-102) from the application
MakeOp(abstract, force_build, override_params) ==
    LET res == Make([inst |-> instances, heap |-> heap], abstract, force_build, override_params)
        asked == NormalizeKey(abstract)
    IN
    /\ ops < MaxOps
    /\ Len(res.c.heap) <= MaxObjs
    /\ instances' = res.c.inst
    /\ heap' = res.c.heap
    /\ last' = [NoCall EXCEPT !.op = "make", !.abstract = abstract,
                              !.params = override_params, !.force = force_build,
                              !.key = MakeKey(abstract), !.err = res.err,
                              !.ret = res.ret, !.bparams = res.bparams,
                              !.args = res.args, !.kwargs = res.kwargs,
                              !.attempt = res.attempt,
                              !.fresh = (res.ret.tag = "obj" /\ res.ret.n > Len(heap)),
                              !.built = Len(res.c.heap) - Len(heap)]
    /\ firstRet' = IF res.err = "" /\ ~force_build /\ asked \notin DOMAIN firstRet
                   THEN Put(firstRet, asked, [ret |-> res.ret, by |-> abstract.kind])
                   ELSE firstRet
    /\ ops' = ops + 1
    /\ UNCHANGED <<bindings, aliases, binding_params, is_singleton, rvars, dvars, avars, tvars>>

(***************************************************************************)
(* The application's registrations and resolutions.                        *)
(***************************************************************************)
RegKeys == {TypeRef("Svc"), Str(<<"m", "Svc">>), Str(<<"pkg", "Dep">>)}

BoundClasses == {TypeRef("Svc")}

SingletonRecipes == {Str(<<"m", "Svc">>)}

FactoryKeys == {Str(<<"svc">>)}

FactoryFunctions == {Func("mkDep")}

AliasKeys == {Str(<<"a">>)}

AliasTargets == {TypeRef("Svc")}

StoredParams == {NoParams, "p" :> Lit(1)}

CallParams == {NoParams, "p" :> Lit(2)}

Threads == {1, 2}

Init ==
    /\ bindings = <<>>
    /\ instances = <<>>
    /\ aliases = <<>>
    /\ binding_params = <<>>
    /\ is_singleton = <<>>
    /\ registry_fqn = (<<"app", "Home", "Home">> :> "Home")
    /\ registry_simple = ("Home" :> "Home")
    /\ AppScanned
    /\ NoModels
    /\ NoRouter
    /\ heap = <<>>
    /\ last = NoCall
    /\ firstRet = <<>>
    /\ ops = 0
    /\ pc = [t \in Threads |-> "idle"]
    /\ tkey = [t \in Threads |-> <<>>]
    /\ tinst = [t \in Threads |-> None]

Next ==
    \/ \E a \in RegKeys, c \in BoundClasses, ps \in StoredParams : Bind(a, c, ps)
    \/ \E a \in RegKeys, c \in SingletonRecipes, ps \in StoredParams : Singleton(a, c, ps)
    \/ \E a \in FactoryKeys, c \in FactoryFunctions : Factory(a, c, NoParams)
    \/ \E a \in AliasKeys, t \in AliasTargets : Alias(a, t)
    \/ \E a \in RegKeys \cup FactoryKeys \cup AliasKeys, f \in BOOLEAN, ov \in CallParams : MakeOp(a, f, ov)

Spec == Init /\ [][Next]_vars

(***************************************************************************)
(* Construction and handler invocation on their own: Container.build and   *)
(* Container.call applied to a container in which the dependency classes   *)
(* are registered in one of a few ways.                                    *)
(***************************************************************************)

\* Container.make_callable for a handler that is already callable
\* (lines 482-484)
MakeCallable(handler) == handler

\* Container.build (lines 282-290) and the _build it ends in
BuildOp(concrete, params) ==
    LET res == Build([inst |-> instances, heap |-> heap], concrete, params) IN
    /\ ops < MaxBuildOps
    /\ Len(res.c.heap) <= MaxObjs
    /\ instances' = res.c.inst
    /\ heap' = res.c.heap
    /\ last' = [NoCall EXCEPT !.op = "build", !.concrete = concrete,
                              !.params = params, !.err = res.err,
                              !.ret = res.ret, !.bparams = res.bparams,
                              !.args = res.args, !.kwargs = res.kwargs,
                              !.attempt = res.attempt,
                              !.fresh = (res.ret.tag = "obj" /\ res.ret.n > Len(heap)),
                              !.built = Len(res.c.heap) - Len(heap)]
    /\ ops' = ops + 1
    /\ UNCHANGED <<bindings, aliases, binding_params, is_singleton, firstRet, rvars, dvars, avars, tvars>>

\* Container.call (lines 399-470); a TypeError of the invocation propagates
CallOp(handler, parameters) ==
    LET callable_fn == MakeCallable(handler)
        sig == FuncSig(callable_fn.cls)
        asm == AssembleCall(NewAcc([inst |-> instances, heap |-> heap]), sig, 1, parameters)
        outcome == BindArguments(sig, asm.args, asm.kwargs)
    IN
    /\ ops < MaxBuildOps
    /\ Len(asm.c.heap) <= MaxObjs
    /\ instances' = asm.c.inst
    /\ heap' = asm.c.heap
    /\ last' = [NoCall EXCEPT !.op = "call", !.concrete = handler,
                              !.params = parameters,
                              !.err = IF outcome = "ok" THEN "" ELSE "TypeError",
                              !.args = asm.args, !.kwargs = asm.kwargs,
                              !.built = Len(asm.c.heap) - Len(heap)]
    /\ ops' = ops + 1
    /\ UNCHANGED <<bindings, aliases, binding_params, is_singleton, firstRet, rvars, dvars, avars, tvars>>

\* the members hasattr finds on an instance of the class: Home.index,
\* TestController.index, ResponseMiddleware.handle
ClassMethods == [c \in Classes |->
    CASE c = "Home" -> {"index"}
      [] c = "Test" -> {"index"}
      [] c = "Mw"   -> {"handle"}
      [] OTHER      -> {}]

\* what make_callable returns: a method bound to self, or a symbol
NoCallable == [kind |-> "none", self |-> None, name |-> "", sym |-> NoRef]

BoundMethod(obj, method) == [kind |-> "method", self |-> obj, name |-> method, sym |-> NoRef]

Symbol(ref) == [kind |-> "symbol", self |-> None, name |-> "", sym |-> ref]

Handler(form, ref, method) == [form |-> form, ref |-> ref, method |-> method]

\* hasattr(instance, method)
HasAttr(c, v, method) == v.tag = "obj" /\ method \in ClassMethods[c.heap[v.n].cls]

\* make_callable lines 500-503 and 510-513, made being the outcome of the
\* make that precedes them
GetMember(made, method) ==
    IF made.err # "" THEN [c |-> made.c, err |-> made.err, fn |-> NoCallable]
    ELSE IF ~HasAttr(made.c, made.ret, method)
    THEN [c |-> made.c, err |-> "MethodNotFound", fn |-> NoCallable]
    ELSE [c |-> made.c, err |-> "", fn |-> BoundMethod(made.ret, method)]

\* the instance of a [cls_or_name, method] handler (lines 490-498)
PairInstance(c, ref) ==
    IF ref.kind = "str" THEN Make(c, ref, FALSE, NoParams)
    ELSE IF ref.kind = "class" THEN Make(c, Str(<<ClassName[ref.cls]>>), FALSE, NoParams)
    ELSE Return(c, Obj(ref.n))

\* Container.make_callable (lines 472-522) for every form of handler
ResolveCallable(c, h) ==
    IF h.form = "callable" THEN [c |-> c, err |-> "", fn |-> Symbol(MakeCallable(h.ref))]
    ELSE IF h.form = "pair" THEN GetMember(PairInstance(c, h.ref), h.method)
    ELSE IF h.form = "at" THEN GetMember(Make(c, h.ref, FALSE, NoParams), h.method)
    ELSE IF h.form = "str"
    THEN IF ~ResolveFqn(h.ref.s).ok THEN [c |-> c, err |-> "SymbolNotFound", fn |-> NoCallable]
         ELSE IF ResolveFqn(h.ref.s).sym.kind \in {"class", "func"}
         THEN [c |-> c, err |-> "", fn |-> Symbol(ResolveFqn(h.ref.s).sym)]
         ELSE [c |-> c, err |-> "NotCallable", fn |-> NoCallable]
    ELSE [c |-> c, err |-> "NotCallable", fn |-> NoCallable]

\* the state a call of make_callable leaves, res being its outcome
MakeCallableDone(h, res) ==
    /\ Len(res.c.heap) <= MaxObjs
    /\ instances' = res.c.inst
    /\ heap' = res.c.heap
    /\ last' = [NoCall EXCEPT !.op = "make_callable", !.abstract = h.ref,
                              !.method = h.method, !.form = h.form,
                              !.err = res.err, !.ret = res.fn.self,
                              !.fn = res.fn.kind,
                              !.built = Len(res.c.heap) - Len(heap)]
    /\ ops' = ops + 1
    /\ UNCHANGED <<bindings, aliases, binding_params, is_singleton, firstRet, rvars, dvars, avars, tvars>>

\* a call of Container.make_callable from the application (the router)
MakeCallableOp(h) ==
    /\ ops < MaxBuildOps
    /\ h.ref.kind = "obj" => h.ref.n <= Len(heap)
    /\ MakeCallableDone(h, ResolveCallable([inst |-> instances, heap |-> heap], h))

\* handlers given to make_callable: "app...Home.Home@index" as in App,
\* [Home, "index"], ["Home", "index"], a pair with a built instance, and
\* handlers whose member or type does not exist
CallableHandlers ==
    { Handler("at", Str(<<"app", "Home", "Home">>), "index"),
      Handler("at", Str(<<"request">>), "index"),
      Handler("at", Str(<<"nothing">>), "index"),
      Handler("pair", TypeRef("Home"), "index"),
      Handler("pair", TypeRef("Home"), "show"),
      Handler("pair", TypeRef("Test"), "index"),
      Handler("pair", Str(<<"Home">>), "index"),
      Handler("pair", Inst(1), "index"),
      Handler("str", Str(<<"m", "Svc">>), ""),
      Handler("callable", Func("index"), "") }

BuildTargets ==
    {TypeRef(c) : c \in Classes} \cup {Str(<<"Home">>), Str(<<"m", "Svc">>), Str(<<"request">>)}

Handlers == {Func("hSvc"), Func("hOpt"), Func("index")}

SuppliedParams ==
    { NoParams,
      "p" :> Lit(1),
      ("dep" :> Lit(1)) @@ ("config" :> Lit(2)),
      ("tmo" :> Lit(1)) @@ ("g" :> Lit(2)) @@ ("k" :> Lit(3)) }

\* how the application has registered the dependency classes: not at all;
\* singleton(Dep, "m.Dep"); bind(Dep, Dep); singleton(Loc, Dep) with
\* singleton("request", "m.Dep")
DepConfigs ==
    { [b |-> <<>>, i |-> <<>>, s |-> <<>>],
      [b |-> (Fqn("Dep") :> Str(Fqn("Dep"))),
       i |-> (Fqn("Dep") :> None),
       s |-> (Fqn("Dep") :> TRUE)],
      [b |-> (Fqn("Dep") :> TypeRef("Dep")),
       i |-> <<>>,
       s |-> (Fqn("Dep") :> FALSE)],
      [b |-> (Fqn("Loc") :> TypeRef("Dep")) @@ (<<"request">> :> Str(Fqn("Dep"))),
       i |-> (Fqn("Loc") :> None) @@ (<<"request">> :> None),
       s |-> (Fqn("Loc") :> TRUE) @@ (<<"request">> :> TRUE)],
      [b |-> (Fqn("Home") :> TypeRef("Home")),
       i |-> (Fqn("Home") :> None),
       s |-> (Fqn("Home") :> TRUE)] }

InitBuild ==
    /\ \E cfg \in DepConfigs :
        /\ bindings = cfg.b
        /\ instances = cfg.i
        /\ is_singleton = cfg.s
    /\ aliases = <<>>
    /\ binding_params = <<>>
    /\ registry_fqn = (<<"app", "Home", "Home">> :> "Home")
    /\ registry_simple = ("Home" :> "Home")
    /\ AppScanned
    /\ NoModels
    /\ NoRouter
    /\ heap = <<>>
    /\ last = NoCall
    /\ firstRet = <<>>
    /\ ops = 0
    /\ pc = [t \in Threads |-> "idle"]
    /\ tkey = [t \in Threads |-> <<>>]
    /\ tinst = [t \in Threads |-> None]

NextBuild ==
    \/ \E c \in BuildTargets, ps \in SuppliedParams : BuildOp(c, ps)
    \/ \E h \in Handlers, ps \in SuppliedParams : CallOp(h, ps)
    \/ \E h \in CallableHandlers : MakeCallableOp(h)

SpecBuild == InitBuild /\ [][NextBuild]_vars

(***************************************************************************)
(* Two request threads resolving services from the shared container.  A    *)
(* thread can be preempted between the statements of make: after the       *)
(* cache check of line 72, and between _resolve and the store of line 100. *)
(***************************************************************************)

\* lines 47-73: the key, then the cache check
MakeCheck(t, abstract) ==
    LET key == MakeKey(abstract)
        hit == key \in DOMAIN instances /\ instances[key] # None
    IN
    /\ pc[t] = "idle"
    /\ tkey' = [tkey EXCEPT ![t] = key]
    /\ tinst' = [tinst EXCEPT ![t] = IF hit THEN instances[key] ELSE None]
    /\ pc' = [pc EXCEPT ![t] = IF hit THEN "done" ELSE "resolve"]
    /\ UNCHANGED <<cvars, rvars, dvars, avars, heap, last, firstRet, ops>>

\* lines 75-96: merge the params and resolve
MakeResolve(t) ==
    LET res == Resolve([inst |-> instances, heap |-> heap], tkey[t],
                       Merge(GetOr(binding_params, tkey[t]), NoParams))
    IN
    /\ pc[t] = "resolve"
    /\ Len(res.c.heap) <= MaxObjs
    /\ instances' = res.c.inst
    /\ heap' = res.c.heap
    /\ tinst' = [tinst EXCEPT ![t] = res.ret]
    /\ pc' = [pc EXCEPT ![t] = IF res.err = "" THEN "store" ELSE "raised"]
    /\ UNCHANGED <<bindings, aliases, binding_params, is_singleton, rvars, dvars, avars,
                   tkey, last, firstRet, ops>>

\* lines 98-102: store the singleton and return
MakeStore(t) ==
    /\ pc[t] = "store"
    /\ instances' = IF tkey[t] \in DOMAIN instances
                    THEN [instances EXCEPT ![tkey[t]] = tinst[t]] ELSE instances
    /\ pc' = [pc EXCEPT ![t] = "done"]
    /\ UNCHANGED <<bindings, aliases, binding_params, is_singleton, rvars, dvars, avars,
                   heap, tkey, tinst, last, firstRet, ops>>

\* the thread goes on to its next request; what make returned stays in tinst
\* until then
NextRequest(t) ==
    /\ pc[t] \in {"done", "raised"}
    /\ pc' = [pc EXCEPT ![t] = "idle"]
    /\ UNCHANGED <<cvars, rvars, dvars, avars, heap, tkey, tinst, last, firstRet, ops>>

\* the services the threads resolve: registered as in App.make_services
ThreadKeys == {Str(<<"request">>), Str(<<"router">>), TypeRef("Dep")}

InitThreads ==
    /\ bindings = (<<"request">> :> Str(Fqn("Dep"))) @@ (<<"router">> :> Str(Fqn("Svc")))
    /\ instances = (<<"request">> :> None) @@ (<<"router">> :> None)
    /\ is_singleton = (<<"request">> :> TRUE) @@ (<<"router">> :> TRUE)
    /\ aliases = <<>>
    /\ binding_params = (<<"router">> :> ("p" :> Lit(1)))
    /\ registry_fqn = (<<"app", "Home", "Home">> :> "Home")
    /\ registry_simple = ("Home" :> "Home")
    /\ AppScanned
    /\ NoModels
    /\ NoRouter
    /\ heap = <<>>
    /\ last = NoCall
    /\ firstRet = <<>>
    /\ ops = 0
    /\ pc = [t \in Threads |-> "idle"]
    /\ tkey = [t \in Threads |-> <<>>]
    /\ tinst = [t \in Threads |-> None]

NextThreads ==
    \/ \E t \in Threads, a \in ThreadKeys : MakeCheck(t, a)
    \/ \E t \in Threads : MakeResolve(t)
    \/ \E t \in Threads : MakeStore(t)
    \/ \E t \in Threads : NextRequest(t)

SpecThreads == InitThreads /\ [][NextThreads]_vars

(***************************************************************************)
(* Registrations of built objects and of recipes that cannot be built:     *)
(* the caller constructs an object and registers it (as                    *)
(* ResponseMiddleware.handle does with the response), or names a recipe    *)
(* that resolves to nothing or to something that is no class.              *)
(***************************************************************************)

\* resp = Response(); container.singleton(key, resp)
\* (ResponseMiddleware.handle lines 11-17, Container.singleton lines 323-341)
SingletonObject(abstract, cls) ==
    LET key == NormalizeKey(abstract)
        concrete == Inst(Len(heap) + 1)
        is_instance == concrete.kind \notin {"str", "class", "func"}
    IN
    /\ ops < MaxOps
    /\ Len(heap) < MaxObjs
    /\ heap' = Append(heap, [cls |-> cls, args |-> <<>>, kwargs |-> <<>>])
    /\ bindings' = Put(bindings, key, concrete)
    /\ instances' = Put(instances, key, IF is_instance THEN Obj(concrete.n) ELSE None)
    /\ is_singleton' = Put(is_singleton, key, TRUE)
    /\ binding_params' = binding_params
    /\ last' = [NoCall EXCEPT !.op = "singleton", !.abstract = abstract,
                              !.concrete = concrete, !.key = key]
    /\ firstRet' = Drop(firstRet, key)
    /\ ops' = ops + 1
    /\ UNCHANGED <<aliases, rvars, dvars, avars, tvars>>

RecipeKeys == {Str(<<"response">>), Str(<<"svc">>), Str(<<"pkg", "Dep">>), TypeRef("Dep")}

Recipes == {Str(<<"m", "Dep">>), Str(<<"svc">>), Str(<<"m", "Missing">>)}

ObjectClasses == {"Dep"}

NextRecipes ==
    \/ \E a \in RecipeKeys, c \in Recipes : Singleton(a, c, NoParams)
    \/ \E a \in RecipeKeys, cls \in ObjectClasses : SingletonObject(a, cls)
    \/ \E a \in FactoryKeys, c \in FactoryFunctions : Factory(a, c, NoParams)
    \/ \E a \in RecipeKeys \cup {TypeRef("Svc")}, f \in BOOLEAN : MakeOp(a, f, NoParams)

SpecRecipes == Init /\ [][NextRecipes]_vars

(***************************************************************************)
(* The autoloader on its own: roots are added, the tables are populated    *)
(* by scan and rescan, emptied by clear and read by get, while files       *)
(* under the roots are written and removed between the calls.              *)
(***************************************************************************)
MaxScanOps == 4
MaxEdits == 1

ScanCall(op) ==
    [op |-> op, name |-> <<>>, root |-> Root("", ""), found |-> FALSE, ret |-> "",
     err |-> "", failed |-> {}, visited |-> <<>>]

NoRuns == [f \in Files |-> 0]

\* the files under the three roots when the autoloader is constructed
InitialTree ==
    (File(AppRoot, <<"Foo">>) :> FooUnit)
        @@ (File(AppRoot, <<"_cfg">>) :> BarUnit)
        @@ (File(AppRoot, <<"sub", "Foo">>) :> BrokenUnit)
        @@ (File(LibRoot, <<"Foo">>) :> FooUnit)
        @@ (File(OptAppRoot, <<"Foo">>) :> FooUnit)

ScanFrame == UNCHANGED <<cvars, heap, firstRet, tvars, dvars, avars>>

\* Autoloader.add_path (lines 111-126)
AddPath(root) ==
    /\ ops < MaxScanOps
    /\ IF root \notin Roots
       THEN /\ last' = [ScanCall("add_path") EXCEPT !.root = root, !.err = "AutoloaderException"]
            /\ UNCHANGED <<paths, scanned>>
       ELSE /\ paths' = IF \E i \in 1..Len(paths) : paths[i] = root
                        THEN paths ELSE Append(paths, root)
            /\ scanned' = (scanned /\ paths' = paths)
            /\ last' = [ScanCall("add_path") EXCEPT !.root = root]
    /\ ops' = ops + 1
    /\ UNCHANGED <<registry_fqn, registry_simple, loaded_modules, sys_modules,
                   tree, runs, edited>>
    /\ ScanFrame

\* what scan leaves behind and returns, s being the state its loops end in
ScanDone(op, s) ==
    /\ registry_fqn' = s.fqn
    /\ registry_simple' = s.simple
    /\ loaded_modules' = s.loaded
    /\ sys_modules' = s.sysm
    /\ runs' = s.runs
    /\ scanned' = TRUE
    /\ last' = [ScanCall(op) EXCEPT !.failed = s.failed, !.visited = s.visited]
    /\ ops' = ops + 1
    /\ UNCHANGED <<paths, tree>>
    /\ ScanFrame

\* Autoloader.scan (lines 130-134)
Scan ==
    /\ ops < MaxScanOps
    /\ ScanDone("scan", ScanPaths(ScanState(registry_fqn, registry_simple, loaded_modules,
                                            sys_modules, runs), tree, paths, 1))
    /\ UNCHANGED edited

\* Autoloader.clear (lines 310-315)
Clear ==
    /\ ops < MaxScanOps
    /\ registry_fqn' = <<>>
    /\ registry_simple' = <<>>
    /\ loaded_modules' = <<>>
    /\ runs' = NoRuns
    /\ scanned' = FALSE
    /\ edited' = FALSE
    /\ last' = ScanCall("clear")
    /\ ops' = ops + 1
    /\ UNCHANGED <<paths, sys_modules, tree>>
    /\ ScanFrame

\* Autoloader.rescan (lines 317-320): clear(), then scan()
Rescan ==
    /\ ops < MaxScanOps
    /\ ScanDone("rescan", ScanPaths(ScanState(<<>>, <<>>, <<>>, sys_modules, NoRuns),
                                    tree, paths, 1))
    /\ edited' = FALSE

\* Autoloader.get (lines 251-269)
Get(name) ==
    /\ ops < MaxScanOps
    /\ last' = [ScanCall("get") EXCEPT
                    !.name = name,
                    !.found = (name \in DOMAIN registry_fqn
                                  \/ (Len(name) = 1 /\ name[1] \in DOMAIN registry_simple)),
                    !.ret = AutoloaderGet(name)]
    /\ ops' = ops + 1
    /\ UNCHANGED rvars
    /\ ScanFrame

\* a file under a root is created or overwritten between two calls
WriteFile(file, unit) ==
    /\ Cardinality({f \in Files : tree[f] # InitialTree[f]}) < MaxEdits
    /\ tree[file] # unit
    /\ tree' = [tree EXCEPT ![file] = unit]
    /\ scanned' = FALSE
    /\ edited' = TRUE
    /\ UNCHANGED <<registry_fqn, registry_simple, loaded_modules, paths, sys_modules,
                   runs, last, ops>>
    /\ ScanFrame

\* a file under a root is deleted between two calls
RemoveFile(file) ==
    /\ Cardinality({f \in Files : tree[f] # InitialTree[f]}) < MaxEdits
    /\ tree[file] # NoFile
    /\ tree' = [tree EXCEPT ![file] = NoFile]
    /\ scanned' = FALSE
    /\ edited' = TRUE
    /\ UNCHANGED <<registry_fqn, registry_simple, loaded_modules, paths, sys_modules,
                   runs, last, ops>>
    /\ ScanFrame

\* Autoloader(paths=[], auto_scan=True): nothing to scan, the tables are empty
InitScan ==
    /\ registry_fqn = <<>>
    /\ registry_simple = <<>>
    /\ loaded_modules = <<>>
    /\ paths = <<>>
    /\ sys_modules = <<>>
    /\ tree = InitialTree
    /\ runs = NoRuns
    /\ scanned = TRUE
    /\ edited = FALSE
    /\ NoRouter
    /\ NoModels
    /\ bindings = <<>>
    /\ instances = <<>>
    /\ aliases = <<>>
    /\ binding_params = <<>>
    /\ is_singleton = <<>>
    /\ heap = <<>>
    /\ last = ScanCall("init")
    /\ firstRet = <<>>
    /\ ops = 0
    /\ pc = [t \in Threads |-> "idle"]
    /\ tkey = [t \in Threads |-> <<>>]
    /\ tinst = [t \in Threads |-> None]

NextScan ==
    \/ \E r \in Roots \cup {Root("srv", "nowhere")} : AddPath(r)
    \/ Scan
    \/ Clear
    \/ Rescan
    \/ \E n \in {<<"Foo">>, <<"Bar">>, <<"Nope">>, <<"app", "Foo", "Foo">>,
                 <<"lib", "Foo", "Foo">>, <<"app", "sub", "Foo", "Foo">>,
                 <<"app", "Nope">>} : Get(n)
    \/ \E f \in Files, u \in {FooUnit, BarUnit, BrokenUnit} : WriteFile(f, u)
    \/ \E f \in Files : RemoveFile(f)

SpecScan == InitScan /\ [][NextScan]_vars

(***************************************************************************)
(* The router (lib.routing.Router, whose source is not part of the         *)
(* repository snapshot; modelled from its specification): routes are       *)
(* matched in registration order, and the middleware named by the route    *)
(* run as a chain of continuations that ends in container.call of the      *)
(* handler.  The middleware themselves and the registrations are those of  *)
(* the application.                                                        *)
(***************************************************************************)
MaxRoutes == 2
MaxDispatchOps == 3

\* a segment of a path pattern: a literal ("lit"), a named placeholder
\* ("param", with the values its inline pattern admits, {} for any) or the
\* trailing wildcard ("wild")
Segment(kind, v, allowed) == [kind |-> kind, v |-> v, allowed |-> allowed]

\* a text captured from the path
Text(segs) == [tag |-> "text", n |-> 0, s |-> segs]

Route(method, pattern, handler, mws, extra) ==
    [method |-> method, pattern |-> pattern, handler |-> handler,
     middleware |-> mws, extra |-> extra]

Request(method, path) == [method |-> method, path |-> path]

NoMatch == [ok |-> FALSE, params |-> NoParams]

\* path matching, from segment i on
RECURSIVE MatchSegments(_, _, _, _)
MatchSegments(pattern, path, i, params) ==
    IF i > Len(pattern)
    THEN IF i > Len(path) THEN [ok |-> TRUE, params |-> params] ELSE NoMatch
    ELSE IF pattern[i].kind = "wild" /\ i = Len(pattern)
    THEN IF Len(path) >= i
         THEN [ok |-> TRUE,
               params |-> (pattern[i].v :> Text(SubSeq(path, i, Len(path)))) @@ params]
         ELSE NoMatch
    ELSE IF i > Len(path) THEN NoMatch
    ELSE IF pattern[i].kind = "lit" /\ path[i] # pattern[i].v THEN NoMatch
    ELSE IF pattern[i].kind # "lit" /\ pattern[i].allowed # {}
            /\ path[i] \notin pattern[i].allowed THEN NoMatch
    ELSE MatchSegments(pattern, path, i + 1,
                       IF pattern[i].kind = "param"
                       THEN (pattern[i].v :> Text(<<path[i]>>)) @@ params
                       ELSE params)

Match(route, req) ==
    IF route.method # req.method THEN NoMatch
    ELSE MatchSegments(route.pattern, req.path, 1, NoParams)

Matching(rs, req) == {i \in 1..Len(rs) : Match(rs[i], req).ok}

\* a dispatch that preferred the route registered last
FindRouteLast(rs, req) ==
    IF Matching(rs, req) = {} THEN 0
    ELSE CHOOSE i \in Matching(rs, req) : \A j \in Matching(rs, req) : j <= i

\* dispatch: the first route that matches, 0 if none does
FindRoute(rs, req) ==
    IF Matching(rs, req) = {} THEN 0
    ELSE CHOOSE i \in Matching(rs, req) : \A j \in Matching(rs, req) : i <= j

MiddlewareBody(mw) ==
    CASE mw = Func("mw_init_view") -> [makes |-> <<Str(<<"settings">>), TypeRef("Dep")>>, continues |-> TRUE]
      [] mw = TypeRef("ViewInit")   -> [makes |-> <<Str(<<"response">>)>>, continues |-> TRUE]
      [] OTHER           -> [makes |-> <<>>, continues |-> FALSE]

Event(ev, name, pos) == [ev |-> ev, mw |-> name, pos |-> pos]

\* a container.make(key) inside the middleware entered last, made being its
\* outcome; the object it returns is the one the middleware goes on to modify
MadeIn(d, key, made) ==
    [d EXCEPT !.c = made.c, !.err = made.err,
              !.at = IF made.err # "" THEN "middleware" ELSE @,
              !.made = Append(@, [by |-> d.trace[Len(d.trace)].mw, key |-> key,
                                  ret |-> made.ret, ok |-> made.err = ""])]

\* the makes of a middleware body, from the i-th on; an exception ends them
RECURSIVE RunMakes(_, _, _)
RunMakes(d, makes, i) ==
    IF i > Len(makes) \/ d.err # "" THEN d
    ELSE RunMakes(MadeIn(d, makes[i], Make(d.c, makes[i], FALSE, NoParams)), makes, i + 1)

\* a middleware that is taken to go on whatever its handle does
EnteredGoesOn(d, body) == d

\* the part of a middleware before its continuation, d being the state its
\* makes left
Entered(d, body) ==
    IF d.err = "" /\ ~body.continues THEN [d EXCEPT !.halt = TRUE] ELSE d

Enter(d, name, pos) ==
    Entered(RunMakes([d EXCEPT !.trace = Append(@, Event("enter", name, pos))],
                     MiddlewareBody(middlewares[name]).makes, 1),
            MiddlewareBody(middlewares[name]))

\* the middleware returns, unless an exception is passing through it
Leave(d, name, pos) ==
    IF d.err = "" THEN [d EXCEPT !.trace = Append(@, Event("leave", name, pos))] ELSE d

\* a container.call that returned the callable without calling it
InvokedNever(d, sig, asm) == [d EXCEPT !.c = asm.c]

\* the invocation that ends container.call, asm being the arguments assembled
Invoked(d, sig, asm) ==
    IF BindArguments(sig, asm.args, asm.kwargs) = "ok"
    THEN [d EXCEPT !.c = asm.c, !.trace = Append(@, Event("handler", "", 0))]
    ELSE [d EXCEPT !.c = asm.c, !.err = "TypeError", !.at = "handler"]

HandlerSig(fn) == IF fn.kind = "method" THEN FuncSig(fn.name) ELSE FuncSig(fn.sym.cls)

\* what the body of a handler makes: Home.index makes "response"
HandlerBody(d, fn) ==
    IF fn.kind = "method" /\ fn.name = "index" /\ d.c.heap[fn.self.n].cls = "Home"
    THEN <<Str(<<"response">>)>> ELSE <<>>

\* a container.make(key) inside the handler, which catches what it raises
Caught(d, key, made) ==
    [d EXCEPT !.c = made.c,
              !.made = Append(@, [by |-> "", key |-> key,
                                  ret |-> made.ret, ok |-> made.err = ""])]

\* the body of the handler, d being the state its invocation left
Handled(d, fn) ==
    IF d.err # "" \/ d.trace = <<>> \/ HandlerBody(d, fn) = <<>> THEN d
    ELSE IF d.trace[Len(d.trace)].ev # "handler" THEN d
    ELSE Caught(d, HandlerBody(d, fn)[1], Make(d.c, HandlerBody(d, fn)[1], FALSE, NoParams))

\* container.call(handler, **params), rc being the outcome of make_callable
Called(d, params, rc) ==
    IF rc.err # "" THEN [d EXCEPT !.c = rc.c, !.err = rc.err, !.at = "handler"]
    ELSE Handled(Invoked(d, HandlerSig(rc.fn),
                         AssembleCall(NewAcc(rc.c), HandlerSig(rc.fn), 1, params)),
                 rc.fn)

\* the chain from the pos-th middleware on: each middleware is entered, calls
\* the rest of the chain as its continuation and returns
RECURSIVE RunChain(_, _, _, _, _)
RunChain(d, mws, pos, handler, params) ==
    IF d.err # "" \/ d.halt THEN d
    ELSE IF pos > Len(mws) THEN Called(d, params, ResolveCallable(d.c, handler))
    ELSE Leave(RunChain(Enter(d, mws[pos], pos), mws, pos + 1, handler, params),
               mws[pos], pos)

\* the name has been given to register_middleware
Registered(name) == \E n \in DOMAIN middlewares : n = name

DispatchCall(req) ==
    [op |-> "dispatch", req |-> req, route |-> 0, params |-> NoParams, err |-> "",
     at |-> "", trace |-> <<>>, halt |-> FALSE, mws |-> <<>>, bodies |-> <<>>,
     made |-> <<>>]

DispatchFrame ==
    UNCHANGED <<bindings, aliases, binding_params, is_singleton, firstRet,
                rvars, dvars, avars, tvars>>

\* Router.add_route (as called in App.py line 75)
AddRoute(route) ==
    /\ Len(routes) < MaxRoutes
    /\ routes' = Append(routes, route)
    /\ last' = [DispatchCall(Request("", <<>>)) EXCEPT !.op = "add_route",
                                                       !.route = Len(routes) + 1]
    /\ UNCHANGED <<cvars, rvars, tvars, avars, middlewares, heap, firstRet, ops>>

\* Router.register_middleware (as called in App.py line 72)
RegisterMiddleware(name, mw) ==
    /\ Registered(name) => middlewares[name] # mw
    /\ middlewares' = (name :> mw) @@ middlewares
    /\ last' = [DispatchCall(Request("", <<>>)) EXCEPT !.op = "register_middleware"]
    /\ UNCHANGED <<cvars, rvars, tvars, avars, routes, heap, firstRet, ops>>

\* what a dispatch that found route i leaves, d being the state its chain ended in
DispatchDone(req, i, d) ==
    /\ Len(d.c.heap) <= MaxObjs
    /\ instances' = d.c.inst
    /\ heap' = d.c.heap
    /\ last' = [DispatchCall(req) EXCEPT
                    !.route = i,
                    !.params = Match(routes[i], req).params,
                    !.err = d.err,
                    !.at = d.at,
                    !.trace = d.trace,
                    !.halt = d.halt,
                    !.made = d.made,
                    !.mws = routes[i].middleware,
                    !.bodies = [k \in 1..Len(routes[i].middleware) |->
                                   MiddlewareBody(middlewares[routes[i].middleware[k]])]]
    /\ ops' = ops + 1
    /\ DispatchFrame

\* Router.dispatch (as called in App.py line 94)
Dispatch(req) ==
    /\ ops < MaxDispatchOps
    /\ IF FindRoute(routes, req) = 0
       THEN /\ last' = [DispatchCall(req) EXCEPT !.err = "RouteNotFound"]
            /\ ops' = ops + 1
            /\ UNCHANGED <<instances, heap>>
            /\ DispatchFrame
       ELSE /\ \A k \in 1..Len(routes[FindRoute(routes, req)].middleware) :
                   Registered(routes[FindRoute(routes, req)].middleware[k])
            /\ DispatchDone(req, FindRoute(routes, req),
                   RunChain([c |-> [inst |-> instances, heap |-> heap], trace |-> <<>>,
                             err |-> "", at |-> "", halt |-> FALSE, made |-> <<>>],
                            routes[FindRoute(routes, req)].middleware, 1,
                            routes[FindRoute(routes, req)].handler,
                            Match(routes[FindRoute(routes, req)], req).params
                                @@ routes[FindRoute(routes, req)].extra))

HomeIndex == Handler("at", Str(<<"app", "Home", "Home">>), "index")

UserPattern == <<Segment("lit", "user", {}), Segment("param", "id", {})>>

\* the routes the application adds: "/" as in App.py, and the routes of
\* public/index.py with and without middleware
AppRoutes ==
    { Route("GET", <<>>, HomeIndex, <<>>, NoParams),
      Route("GET", UserPattern, HomeIndex, <<"mw_init_view", "view_init">>, NoParams),
      Route("GET", <<Segment("lit", "user", {}), Segment("lit", "active", {})>>, Handler("callable", Func("index"), ""),
            <<"auth", "mw_init_view">>, "page" :> Lit(1)),
      Route("GET", <<Segment("lit", "user", {}), Segment("param", "n", {"7"})>>, HomeIndex,
            <<"mw_init_view", "auth", "view_init">>, NoParams),
      Route("POST", <<Segment("lit", "files", {}), Segment("wild", "rest", {})>>, HomeIndex, <<"view_init">>, NoParams) }

\* how the application registered the response before the router is used:
\* singleton(Response, "...Response") as in App.py line 57, alone or with
\* singleton("response", ...) as ResponseMiddleware expects; "settings" is
\* the object given to factory("settings", ...) (App.py line 35)
ResponseConfigs ==
    { [b |-> (<<"settings">> :> Inst(1)) @@ (Fqn("Dep") :> Str(Fqn("Dep"))),
       i |-> (Fqn("Dep") :> None),
       s |-> (<<"settings">> :> FALSE) @@ (Fqn("Dep") :> TRUE)],
      [b |-> (<<"settings">> :> Inst(1)) @@ (Fqn("Dep") :> Str(Fqn("Dep")))
                @@ (<<"response">> :> Str(Fqn("Dep"))),
       i |-> (Fqn("Dep") :> None) @@ (<<"response">> :> None),
       s |-> (<<"settings">> :> FALSE) @@ (Fqn("Dep") :> TRUE) @@ (<<"response">> :> TRUE)] }

InitDispatch ==
    /\ \E cfg \in ResponseConfigs :
        /\ bindings = cfg.b
        /\ instances = cfg.i
        /\ is_singleton = cfg.s
    /\ aliases = <<>>
    /\ binding_params = <<>>
    /\ registry_fqn = (<<"app", "Home", "Home">> :> "Home")
    /\ registry_simple = ("Home" :> "Home")
    /\ AppScanned
    /\ NoModels
    /\ routes = <<>>
    /\ middlewares = <<>>
    /\ heap = <<[cls |-> "Loc", args |-> <<>>, kwargs |-> <<>>]>>
    /\ last = [DispatchCall(Request("", <<>>)) EXCEPT !.op = "router"]
    /\ firstRet = <<>>
    /\ ops = 0
    /\ pc = [t \in Threads |-> "idle"]
    /\ tkey = [t \in Threads |-> <<>>]
    /\ tinst = [t \in Threads |-> None]

NextDispatch ==
    \/ \E r \in AppRoutes : AddRoute(r)
    \/ \E reg \in { <<"mw_init_view", Func("mw_init_view")>>,
                     <<"view_init", TypeRef("ViewInit")>>,
                     <<"auth", Func("deny")>>,
                     <<"auth", TypeRef("ViewInit")>> } : RegisterMiddleware(reg[1], reg[2])
    \/ \E req \in { Request("GET", <<>>), Request("GET", <<"user", "active">>),
                     Request("GET", <<"user", "7">>), Request("POST", <<"files", "a", "b">>),
                     Request("GET", <<"files", "a">>) } : Dispatch(req)

SpecDispatch == InitDispatch /\ [][NextDispatch]_vars

(***************************************************************************)
(* AbstractModel over BaseModel (app/models), with the JsonDatasource the  *)
(* models share for push and pull.  Here the datasource holds only what a  *)
(* model pushed, so every entry of _data is a plain attribute value.       *)
(***************************************************************************)
MaxModelOps == 4

\* BaseModel.set_all: dict.update
DictUpdate(attrs, d) == [k \in Keys |-> IF d[k] # Missing THEN d[k] ELSE attrs[k]]

\* the restore point an operation pushes, as the words of its name
RestorePoint(op, key) ==
    CASE op = "set"     -> <<"before", "set", key>>
      [] op = "remove"  -> <<"before", "remove", key>>
      [] op = "set_all" -> <<"before", "set", "all">>
      [] op = "push_state" -> <<key>>
      [] OTHER          -> <<"before", "clear">>

\* a push_state that kept the snapshot a restore point already had
PushStateKeep(sts, rp, snap) ==
    IF \E i \in DOMAIN sts : sts[i].rp = rp THEN sts
    ELSE Append(sts, [rp |-> rp, snap |-> snap])

\* AbstractModel.push_state: assigning to a key the dict already has keeps
\* the position of the key
PushState(sts, rp, snap) ==
    IF \E i \in DOMAIN sts : sts[i].rp = rp
    THEN [i \in DOMAIN sts |-> IF sts[i].rp = rp THEN [rp |-> rp, snap |-> snap] ELSE sts[i]]
    ELSE Append(sts, [rp |-> rp, snap |-> snap])

\* AbstractModel.get_state
GetState(sts, rp) ==
    IF \E i \in DOMAIN sts : sts[i].rp = rp
    THEN [found |-> TRUE, snap |-> (CHOOSE e \in Range(sts) : e.rp = rp).snap]
    ELSE [found |-> FALSE, snap |-> NoDict]

ModelCall(op, m, key, arg) ==
    [op |-> op, m |-> m, key |-> key, arg |-> arg, before |-> attributes[m],
     popped |-> <<>>, err |-> "", pushed |-> NoDict]

ModelFrame == UNCHANGED <<cvars, rvars, tvars, dvars, heap, firstRet, read_only, registry>>

\* a mutating operation of AbstractModel: push_state, then the operation of
\* BaseModel, which leaves attrs
Mutate(m, op, key, arg, attrs) ==
    /\ ops < MaxModelOps
    /\ states' = [states EXCEPT ![m] = PushState(@, RestorePoint(op, key), attributes[m])]
    /\ attributes' = [attributes EXCEPT ![m] = attrs]
    /\ last' = ModelCall(op, m, key, arg)
    /\ ops' = ops + 1
    /\ UNCHANGED <<data, json_file>>
    /\ ModelFrame

\* AbstractModel.push_state called with a name of the caller's
ModelPushState(m, restore_point) ==
    Mutate(m, "push_state", restore_point, NoDict, attributes[m])

\* AbstractModel.set
ModelSet(m, key, value) ==
    Mutate(m, "set", key, [NoDict EXCEPT ![key] = value],
           [attributes[m] EXCEPT ![key] = value])

\* AbstractModel.remove
ModelRemove(m, key) ==
    Mutate(m, "remove", key, NoDict, [attributes[m] EXCEPT ![key] = Missing])

\* AbstractModel.set_all
ModelSetAll(m, d) == Mutate(m, "set_all", "", d, DictUpdate(attributes[m], d))

\* AbstractModel.clear
ModelClear(m) == Mutate(m, "clear", "", NoDict, NoDict)

\* AbstractModel.pop_state: the state pushed last is removed and given to
\* set_all, which pushes before_set_all and updates the attributes with it
PopState(m) ==
    /\ ops < MaxModelOps
    /\ IF states[m] = <<>>
       THEN /\ UNCHANGED <<attributes, states>>
            /\ last' = ModelCall("pop_state", m, "", NoDict)
       ELSE /\ states' = [states EXCEPT ![m] =
                    PushState(SubSeq(@, 1, Len(@) - 1), RestorePoint("set_all", ""),
                              attributes[m])]
            /\ attributes' = [attributes EXCEPT ![m] =
                    DictUpdate(@, states[m][Len(states[m])].snap)]
            /\ last' = [ModelCall("pop_state", m, "", states[m][Len(states[m])].snap)
                            EXCEPT !.popped = states[m][Len(states[m])].rp]
    /\ ops' = ops + 1
    /\ UNCHANGED <<data, json_file>>
    /\ ModelFrame

\* AbstractModel.__init__ with data given: BaseModel.__init__ calls set_all
\* when the data is not empty
NewModel(m, d) ==
    /\ ops < MaxModelOps
    /\ states' = [states EXCEPT ![m] =
            IF d = NoDict THEN <<>>
            ELSE <<[rp |-> RestorePoint("set_all", ""), snap |-> NoDict]>>]
    /\ attributes' = [attributes EXCEPT ![m] = d]
    /\ last' = [ModelCall("init", m, "", d) EXCEPT !.before = NoDict]
    /\ ops' = ops + 1
    /\ UNCHANGED <<data, json_file>>
    /\ ModelFrame

\* what _data is after JsonDatasource.push(attributes)
Pushed(attrs) ==
    [k \in DataKeys |->
        IF k \in Keys /\ attrs[k] # Missing THEN Entry("value", attrs[k], NoDict)
        ELSE Entry("none", Missing, NoDict)]

\* AbstractModel.push: JsonDatasource.push replaces _data by the attributes
\* and saves the file, or raises when the datasource is read-only
ModelPush(m) ==
    /\ ops < MaxModelOps
    /\ IF read_only
       THEN /\ UNCHANGED <<data, json_file>>
            /\ last' = [ModelCall("push", m, "", NoDict) EXCEPT !.err = "ReadOnly"]
       ELSE /\ data' = Pushed(attributes[m])
            /\ json_file' = [exists |-> TRUE, content |-> Pushed(attributes[m])]
            /\ last' = [ModelCall("push", m, "", NoDict) EXCEPT !.pushed = attributes[m]]
    /\ ops' = ops + 1
    /\ UNCHANGED <<attributes, states>>
    /\ ModelFrame

\* what JsonDatasource.pull returns: _load_data reads the file when it exists
Pulled == IF json_file.exists THEN json_file.content ELSE data

\* AbstractModel.pull: set_all of what the datasource loaded
ModelPull(m) ==
    /\ ops < MaxModelOps
    /\ data' = Pulled
    /\ states' = [states EXCEPT ![m] =
            PushState(@, RestorePoint("set_all", ""), attributes[m])]
    /\ attributes' = [attributes EXCEPT ![m] =
            DictUpdate(@, [k \in Keys |-> Pulled[k].v])]
    /\ last' = ModelCall("pull", m, "", [k \in Keys |-> Pulled[k].v])
    /\ ops' = ops + 1
    /\ UNCHANGED json_file
    /\ ModelFrame

\* AbstractDatasource.set_read_only
SetReadOnly(b) ==
    /\ read_only # b
    /\ read_only' = b
    /\ last' = [ModelCall("set_read_only", "m1", "", NoDict) EXCEPT !.before = NoDict]
    /\ UNCHANGED <<cvars, rvars, tvars, dvars, heap, firstRet, ops, attributes, states,
                   data, json_file, registry>>

InitModel ==
    /\ attributes = [m \in Models |-> NoDict]
    /\ states = [m \in Models |-> <<>>]
    /\ data = NoData
    /\ json_file = [exists |-> FALSE, content |-> NoData]
    /\ read_only \in BOOLEAN
    /\ registry = <<>>
    /\ bindings = <<>>
    /\ instances = <<>>
    /\ aliases = <<>>
    /\ binding_params = <<>>
    /\ is_singleton = <<>>
    /\ registry_fqn = <<>>
    /\ registry_simple = <<>>
    /\ AppScanned
    /\ NoRouter
    /\ heap = <<>>
    /\ last = [ModelCall("none", "m1", "", NoDict) EXCEPT !.before = NoDict]
    /\ firstRet = <<>>
    /\ ops = 0
    /\ pc = [t \in Threads |-> "idle"]
    /\ tkey = [t \in Threads |-> <<>>]
    /\ tinst = [t \in Threads |-> None]

NextModel ==
    \/ \E m \in Models, k \in Keys, v \in Vals : ModelSet(m, k, v)
    \/ \E m \in Models, k \in Keys : ModelRemove(m, k)
    \/ \E m \in Models, d \in {NoDict, [NoDict EXCEPT !["id"] = "1"],
                               [NoDict EXCEPT !["id"] = "2", !["all"] = "1"]} :
            \/ ModelSetAll(m, d)
            \/ NewModel(m, d)
    \/ \E m \in Models : ModelClear(m) \/ PopState(m) \/ ModelPush(m) \/ ModelPull(m)
    \/ \E m \in Models : ModelPushState(m, "checkpoint")
    \/ \E b \in BOOLEAN : SetReadOnly(b)

SpecModel == InitModel /\ [][NextModel]_vars


(***************************************************************************)
(* JsonDatasource (app/datasources/json_datasource.py) used directly: the  *)
(* records of _data are dicts stored under str(id); a push stores plain    *)
(* attribute values beside them.                                           *)
(***************************************************************************)
MaxCrudOps == 3

\* a condition on one column of a query: none, a plain value ("is") or the
\* operator dict {"gt": v}
Cond(op, v) == [op |-> op, v |-> v]

\* float() of the values in use, and str() of the record counts in use
Rank == ("1" :> 1) @@ ("2" :> 2)

NumStr == <<"1", "2", "3">>

\* the conditions that a dict of plain values is
AsConds(d) ==
    [k \in Keys |-> IF d[k] = Missing THEN Cond("none", Missing) ELSE Cond("is", d[k])]

\* a _matches_item that is content with one condition that holds
MatchesAny(item, specs) ==
    \E col \in Keys :
        \/ specs[col].op = "is" /\ item[col] = specs[col].v
        \/ specs[col].op = "gt" /\ item[col] # Missing /\ Rank[item[col]] > Rank[specs[col].v]

\* AbstractDatasource._matches_item
MatchesItem(item, specs) ==
    \A col \in Keys :
        CASE specs[col].op = "is" -> item[col] = specs[col].v
          [] specs[col].op = "gt" -> item[col] # Missing /\ Rank[item[col]] > Rank[specs[col].v]
          [] OTHER -> TRUE

\* the keys of the store whose record matches
Matched(store, specs) ==
    {k \in DataKeys : store[k].tag = "dict" /\ MatchesItem(store[k].rec, specs)}

\* len(self._data)
Count(store) == Cardinality({k \in DataKeys : store[k].tag # "none"})

CrudCall(op, rec, where) ==
    [op |-> op, rec |-> rec, where |-> where, ro |-> read_only, before |-> data,
     fbefore |-> json_file, err |-> "", ret |-> FALSE, out |-> NoData]

CrudFrame == UNCHANGED <<cvars, rvars, tvars, dvars, heap, firstRet, attributes, states,
                         registry, read_only>>

\* a write operation that went ahead on a read-only datasource
WriteUnguarded(call, store, save, ret) ==
    /\ ops < MaxCrudOps
    /\ data' = store
    /\ json_file' = IF save THEN [exists |-> TRUE, content |-> store] ELSE json_file
    /\ last' = [call EXCEPT !.ret = ret]
    /\ ops' = ops + 1
    /\ CrudFrame

\* a write operation: it raises on a read-only datasource; else it leaves
\* store in _data, saves it to the file if save, and returns ret
Write(call, store, save, ret) ==
    /\ ops < MaxCrudOps
    /\ IF read_only
       THEN /\ last' = [call EXCEPT !.err = "ReadOnly"]
            /\ UNCHANGED <<data, json_file>>
       ELSE /\ data' = store
            /\ json_file' = IF save THEN [exists |-> TRUE, content |-> store] ELSE json_file
            /\ last' = [call EXCEPT !.ret = ret]
    /\ ops' = ops + 1
    /\ CrudFrame

\* the key under which create stores a record
RecordId(rec) == IF rec["id"] # Missing THEN rec["id"] ELSE NumStr[Count(data) + 1]

\* JsonDatasource.create({"collection": [rec]}); a payload whose specs are
\* neither a list with an item nor a dict returns False
DsCreate(rec, wellFormed) ==
    /\ rec["id"] = Missing => Count(data) < Len(NumStr)
    /\ IF wellFormed
       THEN Write(CrudCall("create", rec, AsConds(NoDict)),
                  [data EXCEPT ![RecordId(rec)] = Entry("dict", Missing, rec)], TRUE, TRUE)
       ELSE Write(CrudCall("create", NoDict, AsConds(NoDict)), data, FALSE, FALSE)

\* the items of specs that match some record are the WHERE conditions of an
\* update, the others its values
WhereOf(specs) ==
    [k \in Keys |-> IF Matched(data, [AsConds(NoDict) EXCEPT ![k] = AsConds(specs)[k]]) # {}
                       /\ specs[k] # Missing
                    THEN specs[k] ELSE Missing]

ValuesOf(specs) == [k \in Keys |-> IF WhereOf(specs)[k] = Missing THEN specs[k] ELSE Missing]

\* JsonDatasource.update({"collection": specs})
DsUpdate(specs) ==
    Write(CrudCall("update", specs, AsConds(WhereOf(specs))),
          [k \in DataKeys |->
              IF k \in Matched(data, AsConds(WhereOf(specs)))
              THEN Entry("dict", Missing, DictUpdate(data[k].rec, ValuesOf(specs)))
              ELSE data[k]],
          Matched(data, AsConds(WhereOf(specs))) # {},
          Matched(data, AsConds(WhereOf(specs))) # {})

\* JsonDatasource.delete({"collection": where})
DsDelete(where) ==
    Write(CrudCall("delete", NoDict, where),
          [k \in DataKeys |->
              IF k \in Matched(data, where) THEN Entry("none", Missing, NoDict) ELSE data[k]],
          Matched(data, where) # {},
          Matched(data, where) # {})

\* JsonDatasource.push
DsPush(attrs) == Write(CrudCall("push", attrs, AsConds(NoDict)), Pushed(attrs), TRUE, FALSE)

\* JsonDatasource.read(None) and read({"collection": where})
DsRead(all, where) ==
    /\ ops < MaxCrudOps
    /\ last' = [CrudCall("read", NoDict, where) EXCEPT
                    !.out = IF all THEN data
                            ELSE [k \in DataKeys |->
                                     IF k \in Matched(data, where) THEN data[k]
                                     ELSE Entry("none", Missing, NoDict)],
                    !.ret = all]
    /\ ops' = ops + 1
    /\ UNCHANGED <<data, json_file>>
    /\ CrudFrame

\* JsonDatasource.pull
DsPull ==
    /\ ops < MaxCrudOps
    /\ data' = Pulled
    /\ last' = [CrudCall("pull", NoDict, AsConds(NoDict)) EXCEPT !.out = Pulled]
    /\ ops' = ops + 1
    /\ UNCHANGED json_file
    /\ CrudFrame

\* JsonDatasource.__init__ on a file that is absent or holds two records
InitCrud ==
    /\ \E f \in { [exists |-> FALSE, content |-> NoData],
                 [exists |-> TRUE,
                  content |-> [NoData EXCEPT
                      !["1"] = Entry("dict", Missing, [NoDict EXCEPT !["id"] = "1", !["all"] = "1"]),
                      !["2"] = Entry("dict", Missing, [NoDict EXCEPT !["id"] = "2", !["all"] = "2"])]] } :
          /\ json_file = f
          /\ data = f.content
    /\ read_only \in BOOLEAN
    /\ attributes = [m \in Models |-> NoDict]
    /\ states = [m \in Models |-> <<>>]
    /\ registry = <<>>
    /\ bindings = <<>>
    /\ instances = <<>>
    /\ aliases = <<>>
    /\ binding_params = <<>>
    /\ is_singleton = <<>>
    /\ registry_fqn = <<>>
    /\ registry_simple = <<>>
    /\ AppScanned
    /\ NoRouter
    /\ heap = <<>>
    /\ last = CrudCall("none", NoDict, AsConds(NoDict))
    /\ firstRet = <<>>
    /\ ops = 0
    /\ pc = [t \in Threads |-> "idle"]
    /\ tkey = [t \in Threads |-> <<>>]
    /\ tinst = [t \in Threads |-> None]

NextCrud ==
    \/ \E rec \in [Keys -> Vals \cup {Missing}], wf \in BOOLEAN : DsCreate(rec, wf)
    \/ \E specs \in [Keys -> Vals \cup {Missing}] : DsUpdate(specs) \/ DsPush(specs)
    \/ \E where \in [Keys -> {Cond("none", Missing), Cond("is", "1"), Cond("is", "2"),
                              Cond("gt", "1")}] :
            \/ DsDelete(where)
            \/ \E all \in BOOLEAN : DsRead(all, where)
    \/ DsPull
    \/ \E b \in BOOLEAN : SetReadOnly(b)

SpecCrud == InitCrud /\ [][NextCrud]_vars


(***************************************************************************)
(* ServiceManager (app/services.py) over the container.  A service is      *)
(* named by a string; its params here are primitives, which                *)
(* _resolve_value passes through.                                          *)
(***************************************************************************)
MaxServiceOps == 5

Service(abstract, concrete, type, params) ==
    [abstract |-> abstract, concrete |-> concrete, type |-> type, params |-> params]

\* what remove, reload and update see of manager and container
Managed ==
    [registry |-> registry, bindings |-> bindings, instances |-> instances,
     is_singleton |-> is_singleton, binding_params |-> binding_params]

SmCall(op, abstract) ==
    [op |-> op, abstract |-> Str(abstract), key |-> abstract, ok |-> FALSE, err |-> "",
     ret |-> None, fresh |-> FALSE, force |-> FALSE, bparams |-> NoParams,
     before |-> Managed,
     old |-> IF abstract \in DOMAIN instances THEN instances[abstract] ELSE None]

\* the key of firstRet that holds what the last reload of the key found: the
\* cache entry (ret) and the instance make had returned for the key (made)
Reloaded(key) == key \o <<"<reloaded>">>

SmFrame == UNCHANGED <<aliases, rvars, tvars, dvars, attributes, states, data, json_file,
                       read_only>>

\* ServiceManager._register_service: singleton(), factory() or bind() of
\* the container, then the params are stored for the key
RegisterService(s) ==
    /\ bindings' = Put(bindings, s.abstract, s.concrete)
    /\ instances' = IF s.type = "singleton" THEN Put(instances, s.abstract, None)
                    ELSE instances
    /\ is_singleton' = Put(is_singleton, s.abstract, s.type = "singleton")
    /\ binding_params' = IF s.params # NoParams
                         THEN Put(binding_params, s.abstract, s.params)
                         ELSE binding_params
    /\ firstRet' = Drop(Drop(firstRet, s.abstract), Reloaded(s.abstract))

\* ServiceManager.add
SmAdd(s) ==
    /\ ops < MaxServiceOps
    /\ registry' = Put(registry, s.abstract, s)
    /\ RegisterService(s)
    /\ last' = [SmCall("sm_add", s.abstract) EXCEPT !.ok = TRUE]
    /\ ops' = ops + 1
    /\ UNCHANGED heap
    /\ SmFrame

\* the keyword arguments of an update: the fields given and their values
Kwargs(given, concrete, params, type) ==
    [given |-> given, concrete |-> concrete, params |-> params, type |-> type]

\* the loop of lines 87-89 over the fields of the registry entry
Updated(service, kwargs) ==
    [service EXCEPT
        !.concrete = IF "concrete" \in kwargs.given THEN kwargs.concrete ELSE @,
        !.params = IF "params" \in kwargs.given THEN kwargs.params ELSE @,
        !.type = IF "type" \in kwargs.given THEN kwargs.type ELSE @]

\* ServiceManager.update
SmUpdate(abstract, kwargs) ==
    /\ ops < MaxServiceOps
    /\ IF abstract \in DOMAIN registry
       THEN /\ registry' = [registry EXCEPT ![abstract] = Updated(@, kwargs)]
            /\ RegisterService(Updated(registry[abstract], kwargs))
            /\ last' = [SmCall("sm_update", abstract) EXCEPT !.ok = TRUE]
       ELSE /\ last' = SmCall("sm_update", abstract)
            /\ UNCHANGED <<cvars, registry, firstRet>>
    /\ ops' = ops + 1
    /\ UNCHANGED <<heap, aliases>>
    /\ SmFrame

\* a remove that left the cache entry of the key in the container
SmRemoveKeepsInstance(abstract) ==
    /\ ops < MaxServiceOps
    /\ IF abstract \in DOMAIN registry
       THEN /\ registry' = Drop(registry, abstract)
            /\ bindings' = Drop(bindings, abstract)
            /\ is_singleton' = Drop(is_singleton, abstract)
            /\ binding_params' = Drop(binding_params, abstract)
            /\ last' = [SmCall("sm_remove", abstract) EXCEPT !.ok = TRUE]
            /\ UNCHANGED instances
       ELSE /\ last' = SmCall("sm_remove", abstract)
            /\ UNCHANGED <<cvars, registry>>
    /\ ops' = ops + 1
    /\ UNCHANGED <<heap, firstRet, aliases>>
    /\ SmFrame

\* ServiceManager.remove
SmRemove(abstract) ==
    /\ ops < MaxServiceOps
    /\ IF abstract \in DOMAIN registry
       THEN /\ registry' = Drop(registry, abstract)
            /\ bindings' = Drop(bindings, abstract)
            /\ instances' = Drop(instances, abstract)
            /\ is_singleton' = Drop(is_singleton, abstract)
            /\ binding_params' = Drop(binding_params, abstract)
            /\ last' = [SmCall("sm_remove", abstract) EXCEPT !.ok = TRUE]
       ELSE /\ last' = SmCall("sm_remove", abstract)
            /\ UNCHANGED <<cvars, registry>>
    /\ ops' = ops + 1
    /\ UNCHANGED <<heap, firstRet, aliases>>
    /\ SmFrame

\* ServiceManager.reload
SmReload(abstract) ==
    /\ ops < MaxServiceOps
    /\ IF abstract \in DOMAIN registry
       THEN /\ instances' = IF abstract \in DOMAIN instances
                            THEN Put(instances, abstract, None) ELSE instances
            /\ firstRet' = Put(Drop(firstRet, abstract), Reloaded(abstract),
                               [ret |-> SmCall("sm_reload", abstract).old, by |-> "reload",
                                made |-> IF abstract \in DOMAIN firstRet
                                         THEN firstRet[abstract].ret ELSE None])
            /\ last' = [SmCall("sm_reload", abstract) EXCEPT !.ok = TRUE]
       ELSE /\ last' = SmCall("sm_reload", abstract)
            /\ UNCHANGED <<instances, firstRet>>
    /\ ops' = ops + 1
    /\ UNCHANGED <<bindings, aliases, binding_params, is_singleton, registry, heap>>
    /\ SmFrame

\* what ServiceManager.make leaves, made being the outcome of container.make
SmMade(abstract, made) ==
    /\ Len(made.c.heap) <= MaxObjs
    /\ instances' = made.c.inst
    /\ heap' = made.c.heap
    /\ last' = [SmCall("sm_make", abstract) EXCEPT
                    !.key = MakeKey(Str(abstract)), !.err = made.err, !.ret = made.ret,
                    !.ok = made.err = "", !.bparams = made.bparams,
                    !.fresh = (made.ret.tag = "obj" /\ made.ret.n > Len(heap))]
    /\ firstRet' = IF made.err = "" /\ abstract \notin DOMAIN firstRet
                   THEN Put(firstRet, abstract, [ret |-> made.ret, by |-> "str"])
                   ELSE firstRet

\* ServiceManager.make
SmMake(abstract) ==
    /\ ops < MaxServiceOps
    /\ SmMade(abstract, Make([inst |-> instances, heap |-> heap], Str(abstract), FALSE,
                             NoParams))
    /\ ops' = ops + 1
    /\ UNCHANGED <<bindings, aliases, binding_params, is_singleton, registry>>
    /\ SmFrame

\* the services of the application: a plain name, the class's own dotted
\* name (service_implemetation.py line 17) and the name under which a
\* package re-exports the class
Services ==
    { Service(<<"db">>, Str(<<"m", "Dep">>), "singleton", NoParams),
      Service(<<"db">>, Str(<<"m", "Opt">>), "factory", "g" :> Lit(1)),
      Service(<<"m", "Dep">>, Str(<<"m", "Dep">>), "singleton", NoParams),
      Service(<<"pkg", "Dep">>, Str(<<"m", "Dep">>), "singleton", "n" :> Lit(1)) }

\* the updates of the application: of the type, of the params (to none, as
\* to other ones) and of the concrete
Updates ==
    { Kwargs({"type"}, NoRef, NoParams, "singleton"),
      Kwargs({"type"}, NoRef, NoParams, "factory"),
      Kwargs({"params"}, NoRef, NoParams, ""),
      Kwargs({"params"}, NoRef, "g" :> Lit(2), ""),
      Kwargs({"concrete"}, Str(<<"m", "Opt">>), NoParams, "") }

InitServices ==
    /\ registry = <<>>
    /\ bindings = <<>>
    /\ instances = <<>>
    /\ aliases = <<>>
    /\ binding_params = <<>>
    /\ is_singleton = <<>>
    /\ attributes = [m \in Models |-> NoDict]
    /\ states = [m \in Models |-> <<>>]
    /\ data = NoData
    /\ json_file = [exists |-> FALSE, content |-> NoData]
    /\ read_only = TRUE
    /\ registry_fqn = (<<"app", "Home", "Home">> :> "Home")
    /\ registry_simple = ("Home" :> "Home")
    /\ AppScanned
    /\ NoRouter
    /\ heap = <<>>
    /\ last = [op |-> "none", abstract |-> NoRef, key |-> <<>>, ok |-> FALSE, err |-> "",
               ret |-> None, fresh |-> FALSE, force |-> FALSE, bparams |-> NoParams,
               before |-> [registry |-> <<>>, bindings |-> <<>>, instances |-> <<>>,
                           is_singleton |-> <<>>, binding_params |-> <<>>],
               old |-> None]
    /\ firstRet = <<>>
    /\ ops = 0
    /\ pc = [t \in Threads |-> "idle"]
    /\ tkey = [t \in Threads |-> <<>>]
    /\ tinst = [t \in Threads |-> None]

NextServices ==
    \/ \E s \in Services : SmAdd(s)
    \/ \E k \in {s.abstract : s \in Services} :
            \/ SmRemove(k)
            \/ SmReload(k)
            \/ SmMake(k)
            \/ \E kw \in Updates : SmUpdate(k, kw)

SpecServices == InitServices /\ [][NextServices]_vars

(***************************************************************************)
(* Properties of the singleton cache, the canonical key and the aliases.   *)
(***************************************************************************)
Asked == NormalizeKey(last.abstract)

MadeOk == last.op = "make" /\ last.err = ""

RegisteredSingleton(k) == k \in DOMAIN is_singleton /\ is_singleton[k]

RegisteredFactory(k) == k \in DOMAIN is_singleton /\ ~is_singleton[k]

\* C1: a make without force_build of a key registered with singleton()
\* returns the instance that the first make since its registration returned.
C1_SingletonReturnsSameInstance ==
    (MadeOk /\ ~last.force /\ RegisteredSingleton(Asked) /\ Asked \in DOMAIN firstRet)
        => last.ret = firstRet[Asked].ret

\* C2: a make of a key whose current registration is a factory binding
\* returns an instance constructed by that very call, never an older one.
C2_FactoryReturnsNewInstance ==
    (MadeOk /\ RegisteredFactory(Asked)) => last.fresh

\* C3: for a class T whose canonical key is registered as a singleton, a make
\* by the type reference T and a make by the string of T's fully-qualified
\* name use the same key, the cache entry of that key holds what they return,
\* and they return the same instance.
C3_TypeAndNameShareCacheEntry ==
    \A T \in Classes :
        (MadeOk /\ ~last.force /\ last.abstract \in {TypeRef(T), Str(Fqn(T))}
            /\ RegisteredSingleton(Fqn(T)))
        => /\ last.key = Fqn(T)
           /\ instances[Fqn(T)] = last.ret
           /\ Fqn(T) \in DOMAIN firstRet
           /\ firstRet[Fqn(T)].ret = last.ret

\* a make by the name string returned the instance that an earlier make by
\* the type reference had built and cached
C3_Witness ==
    \E T \in Classes :
        /\ MadeOk /\ ~last.force /\ last.abstract = Str(Fqn(T))
        /\ RegisteredSingleton(Fqn(T))
        /\ Fqn(T) \in DOMAIN firstRet
        /\ firstRet[Fqn(T)].by = "class"
        /\ last.ret.tag = "obj"
        /\ ~last.fresh

\* C4: a make of an alias whose target is registered as a singleton returns
\* the instance held in the target's cache entry.
C4_AliasReturnsCachedTarget ==
    (MadeOk /\ ~last.force /\ Asked \in DOMAIN aliases
        /\ RegisteredSingleton(aliases[Asked]))
    => instances[aliases[Asked]] = last.ret

\* C10: whenever make constructs the instance it returns, the construction
\* received the stored params of the key's binding overlaid with the call's
\* params.
C10_BuildUsesMergedParams ==
    (MadeOk /\ last.fresh)
        => last.bparams = Merge(GetOr(binding_params, last.key), last.params)

(***************************************************************************)
(* Properties of concurrent resolution.                                    *)
(***************************************************************************)

\* C5: two threads whose make of the same singleton key has returned hold
\* the same instance, which is the one in the key's cache entry.
C5_ConcurrentMakeSharesInstance ==
    \A t1, t2 \in Threads :
        (pc[t1] = "done" /\ pc[t2] = "done" /\ tkey[t1] = tkey[t2]
            /\ RegisteredSingleton(tkey[t1]))
        => (tinst[t1] = tinst[t2] /\ instances[tkey[t1]] = tinst[t1])

(***************************************************************************)
(* Properties of argument assembly.  They are stated on what the last      *)
(* build or call passed: last.args and last.kwargs.                        *)
(***************************************************************************)
CatchAllNames == {"args", "kwargs", "config", "settings", "options"}

\* the class the last build constructed or tried to construct
LastClass ==
    IF last.concrete.kind = "str"
    THEN ResolveFqn(last.concrete.s).sym.cls
    ELSE last.concrete.cls

\* the last call was a build that reached the parameter loop
Built == last.op = "build" /\ last.attempt >= 1

\* the constructor's parameters the loop goes through
LastSig == SelectSeq(CtorSig(LastClass), LAMBDA p : p.name # "self")

\* the value assembled for parameter i of sig
Assembled(sig, i) ==
    IF sig[i].kind \in Positional
    THEN last.args[Cardinality({j \in 1..i : sig[j].kind \in Positional})]
    ELSE last.kwargs[sig[i].name]

\* what make(annotation) gives in this container
Made(prm) == Make([inst |-> instances, heap |-> heap], TypeRef(prm.ann), FALSE, NoParams)

ClassOf(c, v) == c.heap[v.n].cls

\* C6: every argument of a build is chosen by the first rule that applies:
\* the override supplied by name; else, for an annotation that is no builtin
\* type and that make resolves, the resolved instance; else the declared
\* default; else an empty mapping for a parameter named args, kwargs,
\* config, settings or options; else None.
C6_ArgumentPriority ==
    Built =>
        \A i \in 1..Len(LastSig) :
            LET prm == LastSig[i]
                v == Assembled(LastSig, i)
            IN  IF prm.name \in DOMAIN last.params THEN v = last.params[prm.name]
                ELSE IF Injectable(prm) /\ Made(prm).err = ""
                THEN /\ v.tag = "obj"
                     /\ v.n <= Len(heap)
                     /\ ClassOf([heap |-> heap], v) = ClassOf(Made(prm).c, Made(prm).ret)
                     /\ RegisteredSingleton(Fqn(prm.ann)) => instances[Fqn(prm.ann)] = v
                ELSE IF prm.dflt THEN v = DefaultValue
                ELSE IF prm.name \in CatchAllNames THEN v = EmptyMap
                ELSE v = None

\* a build of Svc that used four of the rules: dep resolved through make,
\* p overridden, config an empty mapping, tmo its default
C6_Witness ==
    /\ Built /\ last.err = ""
    /\ last.concrete = TypeRef("Svc")
    /\ last.params = ("p" :> Lit(1))
    /\ last.args[1].tag = "obj"
    /\ last.args[2] = Lit(1)
    /\ last.args[3] = EmptyMap
    /\ last.args[4] = DefaultValue

Unresolvable(prm) ==
    prm.ann = "" /\ ~prm.dflt /\ prm.name \notin DOMAIN last.params

C8_NoArgConstructibleNeverFails ==
    (Built /\ Invoke(LastClass, <<>>, <<>>) = "ok") => last.err # "BuildFailure"

\* C9: for every parameter of the handler, call passes the value that the
\* rules of _build select for a parameter of that name, annotation, default
\* and kind under the same supplied names (for a resolved dependency: an
\* instance as well).
C9_CallSelectsAsBuild ==
    last.op = "call" =>
        \A i \in 1..Len(FuncSig(last.concrete.cls)) :
            LET sig == FuncSig(last.concrete.cls)
                v == Assembled(sig, i)
                b == BuildArg(sig[i], last.params,
                              Dep([inst |-> instances, heap |-> heap], sig[i], last.params))
            IN  v.tag = b.tag /\ (v.tag # "obj" => v = b)

(***************************************************************************)
(* Properties of registered objects and of failing resolutions.            *)
(***************************************************************************)

\* C11: while the current registration of a key is singleton(key, obj) with
\* a built object, every make(key) without force_build succeeds, returns
\* that object (the one registered last) and constructs nothing.
C11_PrebuiltSingletonIsReturned ==
    (last.op = "make" /\ ~last.force /\ Asked \in DOMAIN bindings
        /\ bindings[Asked].kind = "obj" /\ RegisteredSingleton(Asked))
    => (last.err = "" /\ last.ret = Obj(bindings[Asked].n) /\ last.built = 0)

\* C12: a make that raises because nothing resolves (SymbolNotFound) or
\* because the recipe is no class (InvalidRecipe) leaves the bindings, the
\* aliases and the instance cache as they were before the call.
C12_FailedMakeLeavesState ==
    [][(ops' = ops + 1 /\ last'.op = "make"
            /\ last'.err \in {"SymbolNotFound", "InvalidRecipe"})
        => (bindings' = bindings /\ aliases' = aliases /\ instances' = instances)]_vars

\* a make of a registered singleton key failed with InvalidRecipe while the
\* cache held a built instance of another key
C12_Witness ==
    /\ last.op = "make" /\ last.err = "InvalidRecipe"
    /\ RegisteredSingleton(Asked)
    /\ instances[Asked] = None
    /\ \E k \in DOMAIN instances : instances[k] # None

(***************************************************************************)
(* Properties of make_callable.                                            *)
(***************************************************************************)

\* the last call was make_callable on a [type-or-name, method] pair or a
\* "Type@method" string
MadeCallable == last.op = "make_callable" /\ last.form \in {"pair", "at"}

\* what make gives for the handler's type or name in this container
TargetMade == Make([inst |-> instances, heap |-> heap], last.abstract, FALSE, NoParams)

\* the handler's type resolves through make to an object
TargetResolves == last.abstract.kind = "obj" \/ TargetMade.err = ""

\* the object the handler's type resolves to has the member
TargetHasMember ==
    IF last.abstract.kind = "obj"
    THEN last.method \in ClassMethods[heap[last.abstract.n].cls]
    ELSE HasAttr(TargetMade.c, TargetMade.ret, last.method)

\* C13: make_callable on a pair or a "Type@method" string whose type
\* resolves through make returns the named member bound to an object of the
\* resolved class (the given instance itself for a pair with an instance)
\* when that object has the member, and otherwise raises MethodNotFound and
\* returns no invocable.
C13_CallableIsBoundMember ==
    (MadeCallable /\ TargetResolves) =>
        IF TargetHasMember
        THEN /\ last.err = ""
             /\ last.fn = "method"
             /\ last.ret.tag = "obj" /\ last.ret.n <= Len(heap)
             /\ last.method \in ClassMethods[heap[last.ret.n].cls]
             /\ last.abstract.kind = "obj" => last.ret = Obj(last.abstract.n)
             /\ last.abstract.kind # "obj"
                   => heap[last.ret.n].cls = TargetMade.c.heap[TargetMade.ret.n].cls
        ELSE last.err = "MethodNotFound" /\ last.fn = "none" /\ last.ret = None

(***************************************************************************)
(* Properties of the class registry of the autoloader.                     *)
(***************************************************************************)
InPaths(root) == \E i \in 1..Len(paths) : paths[i] = root

PathIndex(root) == CHOOSE i \in 1..Len(paths) : paths[i] = root

\* the files whose types a scan of the present tree is to register
Loadable == {f \in Files : InPaths(f.root) /\ Reached(tree, f) /\ ~tree[f].raises}

Definers(n) == {f.root : f \in {g \in Loadable : n \in tree[g].defines}}

LastDefiner(n) ==
    CHOOSE r \in Definers(n) : \A q \in Definers(n) : PathIndex(q) <= PathIndex(r)

\* the tables were filled by scans of the present roots and files
Populated == scanned /\ ~edited

\* C14: when two roots scanned in that order both define a type of the same
\* short name, get of the short name returns the definition of the root
\* scanned last, get of a fully-qualified name returns the definition of the
\* unit of that name, and get of a name that no unit defines finds nothing.
C14_LastScannedRootWins ==
    (last.op = "get" /\ Populated) =>
        /\ (Len(last.name) = 1 /\ Definers(last.name[1]) # {})
            => (last.found /\ last.ret.root = LastDefiner(last.name[1]))
        /\ \A f \in Loadable : \A n \in tree[f].defines :
            (last.name = ModuleName(f) \o <<n>>) => (last.found /\ last.ret = Type(f, n))
        /\ ((\A f \in Loadable : \A n \in tree[f].defines :
                last.name # <<n>> /\ last.name # ModuleName(f) \o <<n>>)
            => ~last.found)

\* the files a scan of the present roots finds
Found == {f \in Files : InPaths(f.root) /\ Reached(tree, f)}

ScanStep == ops' = ops + 1 /\ last'.op = "scan"

\* C15: every unit found under the roots is executed exactly once per
\* population of the tables; a scan that follows a scan, with no root added
\* and no file changed in between, executes no unit again and leaves both
\* tables as they were.
C15_UnitsLoadedOnce ==
    [][ScanStep =>
          /\ (~edited => \A f \in Found : runs'[f] = 1)
          /\ (scanned => (/\ runs' = runs
                          /\ registry_fqn' = registry_fqn
                          /\ registry_simple' = registry_simple))]_vars

Scanned == last.op \in {"scan", "rescan"}

Visited(f) == \E i \in 1..Len(last.visited) : last.visited[i] = f

\* the entries of both tables that hold a class created by file f
EntriesOf(f) ==
    {k \in DOMAIN registry_fqn :
        registry_fqn[k].root = f.root /\ registry_fqn[k].path = f.path}
    \cup {<<k>> : k \in {n \in DOMAIN registry_simple :
        registry_simple[n].root = f.root /\ registry_simple[n].path = f.path}}

\* C16: when the load of a unit raises during a scan, the scan returns
\* normally, every other loadable unit under the roots is visited and the
\* names of its types are in both tables, and the unit that raised has no
\* entry in either table.
C16_FailedUnitDoesNotAbortScan ==
    (Scanned /\ last.failed # {} /\ ~edited) =>
        /\ last.err = ""
        /\ \A f \in Loadable :
            /\ Visited(f)
            /\ ModuleName(f) \in DOMAIN loaded_modules
            /\ \A n \in tree[f].defines :
                /\ ModuleName(f) \o <<n>> \in DOMAIN registry_fqn
                /\ n \in DOMAIN registry_simple
        /\ \A f \in last.failed : EntriesOf(f) = {}

RescanStep == ops' = ops + 1 /\ last'.op = "rescan"

\* the names the units now under the roots give to their types
PresentFqns == UNION {{ModuleName(f) \o <<n>> : n \in tree[f].defines} : f \in Loadable}

PresentNames == UNION {tree[f].defines : f \in Loadable}

\* every entry of both tables holds a type that a unit now present defines
EntriesPresent ==
    /\ \A k \in DOMAIN registry_fqn :
        \E f \in Loadable : registry_fqn[k] = Type(f, k[Len(k)]) /\ k[Len(k)] \in tree[f].defines
    /\ \A n \in DOMAIN registry_simple :
        \E f \in Loadable : registry_simple[n] = Type(f, n) /\ n \in tree[f].defines

\* C17: after rescan the two tables hold exactly the types of the units now
\* present under the roots, no entry of a unit that has disappeared is left,
\* and when no file changed since the tables were filled the registered
\* names are the ones registered before.
C17_RescanRepopulates ==
    [][RescanStep =>
          /\ DOMAIN registry_fqn' = PresentFqns'
          /\ DOMAIN registry_simple' = PresentNames'
          /\ EntriesPresent'
          /\ (Populated => (/\ DOMAIN registry_fqn' = DOMAIN registry_fqn
                            /\ DOMAIN registry_simple' = DOMAIN registry_simple))]_vars

(***************************************************************************)
(* Properties of the router.                                               *)
(***************************************************************************)
Dispatched == last.op = "dispatch"

\* C18: dispatch runs the route registered earliest among those whose
\* method is the request's and whose pattern matches the path, with the
\* parameters that route captures; a route registered later is never chosen
\* while an earlier one matches, and without a match nothing runs.
C18_FirstRegisteredRouteWins ==
    Dispatched =>
        IF \E j \in 1..Len(routes) : Match(routes[j], last.req).ok
        THEN /\ last.route \in 1..Len(routes)
             /\ Match(routes[last.route], last.req).ok
             /\ \A j \in 1..Len(routes) : Match(routes[j], last.req).ok => last.route <= j
             /\ last.params = Match(routes[last.route], last.req).params
             /\ last.mws = routes[last.route].middleware
        ELSE last.route = 0 /\ last.err = "RouteNotFound" /\ last.trace = <<>>

C18_Witness ==
    /\ Dispatched
    /\ last.req = Request("GET", <<"user", "active">>)
    /\ Len(routes) = 2
    /\ routes[1].pattern = UserPattern
    /\ routes[2].pattern = <<Segment("lit", "user", {}), Segment("lit", "active", {})>>
    /\ last.route = 1
    /\ last.params = ("id" :> Text(<<"active">>))

ChainLength == Len(last.mws)

\* the middleware of the chain all call their continuation, and none raised
AllGoOn ==
    /\ \A k \in 1..ChainLength : last.bodies[k].continues
    /\ last.at # "middleware"

HandlerRuns == {k \in 1..Len(last.trace) : last.trace[k].ev = "handler"}

\* C19: when every middleware of the route calls its continuation, a
\* dispatch enters m1, m2, ..., mn in that order and then invokes the
\* handler, exactly once and only after mn was entered; this holds for
\* every dispatch, the chain being built anew each time.
C19_ChainRunsInDeclaredOrder ==
    (Dispatched /\ last.route # 0 /\ AllGoOn) =>
        /\ Len(last.trace) >= ChainLength
        /\ \A k \in 1..ChainLength : last.trace[k] = Event("enter", last.mws[k], k)
        /\ last.at # "handler" =>
            (/\ HandlerRuns = {ChainLength + 1}
             /\ Len(last.trace) = 2 * ChainLength + 1
             /\ \A k \in 1..ChainLength :
                 last.trace[2 * ChainLength + 2 - k] = Event("leave", last.mws[k], k))

C19_Witness ==
    /\ Dispatched /\ last.route # 0 /\ AllGoOn
    /\ ops >= 2
    /\ ChainLength = 2
    /\ last.mws[1] # last.mws[2]
    /\ HandlerRuns = {3}

\* the first middleware of the chain that does not call its continuation
Stops == {k \in 1..ChainLength : ~last.bodies[k].continues}

FirstStop == CHOOSE k \in Stops : \A j \in Stops : k <= j

\* C20: when a middleware of the chain returns without calling its
\* continuation, no middleware after it is entered and the handler is not
\* invoked in that dispatch, and the dispatch returns normally.
C20_ShortCircuitEndsChain ==
    (Dispatched /\ last.route # 0 /\ Stops # {} /\ last.at # "middleware") =>
        /\ last.err = ""
        /\ HandlerRuns = {}
        /\ \A k \in 1..Len(last.trace) : last.trace[k].pos <= FirstStop
        /\ Len(last.trace) = 2 * FirstStop
        /\ \A k \in 1..FirstStop :
            /\ last.trace[k] = Event("enter", last.mws[k], k)
            /\ last.trace[2 * FirstStop + 1 - k] = Event("leave", last.mws[k], k)

C20_Witness ==
    /\ Dispatched /\ last.route # 0 /\ last.at # "middleware"
    /\ ChainLength = 3
    /\ Stops = {2}
    /\ Len(last.trace) = 4
    /\ last.err = ""

\* the makes of the last dispatch that InitView did for the response it
\* modifies, and those the handler did for "response"
ByInitView == {i \in DOMAIN last.made : last.made[i].key = TypeRef("Dep") /\ last.made[i].ok}

ByHandler == {j \in DOMAIN last.made : last.made[j].by = "" /\ last.made[j].key = Str(<<"response">>)}

\* C21: the response object that the InitView middleware modifies is the
\* instance that container.make("response") in the handler of the same
\* dispatch returns.
C21_HandlerSeesMiddlewareResponse ==
    Dispatched =>
        \A i \in ByInitView, j \in ByHandler :
            last.made[j].ok /\ last.made[j].ret = last.made[i].ret

\* the operations of AbstractModel that push a state before they mutate
Mutators == {"set", "remove", "set_all", "clear"}

\* C22: a set, remove, set_all or clear immediately followed by pop_state on
\* the same model is undone: the attributes after pop_state are the
\* attributes before the operation.
C22_PopStateUndoesMutation ==
    [][(last.op \in Mutators /\ last'.op = "pop_state" /\ last'.m = last.m)
            => attributes'[last.m] = last.before]_vars

\* C23: every set, remove, set_all and clear records, before it mutates, a
\* snapshot equal to the attributes at that moment, which get_state returns
\* under the restore point of the operation.
C23_MutationSnapshotsBefore ==
    last.op \in Mutators =>
        GetState(states[last.m], RestorePoint(last.op, last.key))
            = [found |-> TRUE, snap |-> last.before]

\* an operation that changed the attributes, under a restore point that an
\* earlier operation had used for other attributes
C23_Witness ==
    /\ last.op \in Mutators
    /\ last.before # NoDict
    /\ attributes[last.m] # last.before
    /\ Len(states[last.m]) >= 2
    /\ states[last.m][1].rp = RestorePoint(last.op, last.key)

\* the store holds the data of a model: each attribute of the model is an
\* entry of _data, or some entry is the record of the model
Holds(store, attrs) ==
    \/ \A k \in Keys : attrs[k] # Missing => store[k] = Entry("value", attrs[k], NoDict)
    \/ \E k \in DataKeys : store[k] = Entry("dict", Missing, attrs)

\* C29: after a push of one model followed by a push of another model on
\* the same datasource, the datasource holds the data of both.
C29_PushKeepsOtherModels ==
    [][(last.op = "push" /\ last.err = "" /\ last'.op = "push" /\ last'.err = ""
            /\ last'.m # last.m)
            => Holds(data', last.pushed) /\ Holds(data', last'.pushed)]_vars

Writes == {"create", "update", "delete", "push"}

WithId(m) == {k \in DataKeys : last.before[k].tag = "dict" /\ last.before[k].rec["id"] = m}

\* C25: update({c: {id: m, all: v}}) sets the field all to v on exactly the
\* records whose id equals m and leaves every other record unchanged; it
\* returns False, changing nothing, when no record has that id.
C25_UpdateSetsFieldOnMatches ==
    (last.op = "update" /\ ~last.ro /\ last.rec["id"] # Missing /\ last.rec["all"] # Missing) =>
        /\ data = [k \in DataKeys |->
                      IF k \in WithId(last.rec["id"])
                      THEN Entry("dict", Missing,
                                 [last.before[k].rec EXCEPT !["all"] = last.rec["all"]])
                      ELSE last.before[k]]
        /\ last.ret = (WithId(last.rec["id"]) # {})

\* the record satisfies every condition of where
Satisfies(rec, where) ==
    \A col \in Keys :
        /\ where[col].op = "is" => rec[col] = where[col].v
        /\ where[col].op = "gt" => rec[col] \in Vals /\ Rank[rec[col]] > Rank[where[col].v]

\* the keys of the records that satisfied the where of the last call
Doomed == {k \in DataKeys : last.before[k].tag = "dict" /\ Satisfies(last.before[k].rec, last.where)}

\* C26: delete({c: where}) removes exactly the records that satisfy every
\* condition of where, returns True iff it removed a record, and leaves the
\* store and the file untouched when no record matches.
C26_DeleteRemovesExactlyMatches ==
    (last.op = "delete" /\ ~last.ro) =>
        /\ \A k \in DataKeys :
              data[k] = IF k \in Doomed THEN Entry("none", Missing, NoDict) ELSE last.before[k]
        /\ last.ret = (Doomed # {})
        /\ Doomed = {} => json_file = last.fbefore
        /\ Doomed # {} => json_file = [exists |-> TRUE, content |-> data]

\* a delete with two conditions that removed one record and kept another
\* that satisfies only one of them
C26_Witness ==
    /\ last.op = "delete" /\ ~last.ro /\ last.ret
    /\ \A col \in Keys : last.where[col].op # "none"
    /\ Doomed # {}
    /\ \E k \in DataKeys \ Doomed :
          /\ data[k].tag = "dict"
          /\ \E col \in Keys : Satisfies(data[k].rec, [AsConds(NoDict) EXCEPT ![col] = last.where[col]])

\* a name the manager's has() and list_services() report
Listed(k) == k \in DOMAIN registry

\* whether the container holds anything under the key
Held(k) ==
    \/ k \in DOMAIN bindings
    \/ k \in DOMAIN instances
    \/ k \in DOMAIN is_singleton
    \/ k \in DOMAIN binding_params

\* C27: remove(k) of a registered service returns True and leaves the
\* container without binding, cached instance, lifecycle flag and stored
\* params under k, and the manager no longer reports k; remove of a name
\* that is not registered returns False and changes neither the registry
\* nor the container.
C27_RemoveClearsService ==
    last.op = "sm_remove" =>
        IF last.key \in DOMAIN last.before.registry
        THEN last.ok /\ ~Held(last.key) /\ ~Listed(last.key)
        ELSE ~last.ok /\ Managed = last.before

\* a service that had been built and cached has been removed
C27_Witness ==
    /\ last.op = "sm_remove"
    /\ last.ok
    /\ last.old # None
    /\ last.key \in DOMAIN last.before.binding_params

\* a remove of a name that was never added has returned
C27_WitnessUnregistered ==
    /\ last.op = "sm_remove"
    /\ ~last.ok
    /\ registry # <<>>

\* a make of a singleton service has returned, the service having been
\* reloaded since its registration
MadeAfterReload ==
    /\ last.op = "sm_make"
    /\ last.ok
    /\ last.abstract.s \in DOMAIN registry
    /\ registry[last.abstract.s].type = "singleton"
    /\ Reloaded(last.abstract.s) \in DOMAIN firstRet

\* C28: after reload(k) of a singleton service of which make(k) had returned
\* an instance, the next make(k) returns an instance different from that one
\* and every later make(k) returns the same as the next one did; reload of
\* an unregistered name returns False and changes nothing.
C28_ReloadRebuildsOnce ==
    /\ (MadeAfterReload /\ firstRet[Reloaded(last.abstract.s)].made # None) =>
            /\ firstRet[last.abstract.s].ret # firstRet[Reloaded(last.abstract.s)].made
            /\ last.ret = firstRet[last.abstract.s].ret
    /\ (last.op = "sm_reload" /\ last.key \notin DOMAIN last.before.registry) =>
            ~last.ok /\ Managed = last.before

\* the same for the services whose cache entry held the instance when
\* reload was called
C28_ReloadRebuildsCached ==
    /\ (MadeAfterReload /\ firstRet[Reloaded(last.abstract.s)].ret # None) =>
            /\ firstRet[last.abstract.s].ret # firstRet[Reloaded(last.abstract.s)].ret
            /\ last.ret = firstRet[last.abstract.s].ret
    /\ (last.op = "sm_reload" /\ last.key \notin DOMAIN last.before.registry) =>
            ~last.ok /\ Managed = last.before

\* a table of modules by name holds the module made from the file
Recorded(table, f) == ModuleName(f) \in DOMAIN table /\ table[ModuleName(f)] = f

\* C30: when the load of a unit raised during a scan, the unit is, once the
\* scan has returned, recorded neither in the loaded-unit table of the
\* registry nor in the module table of the process.
C30_FailedUnitIsReleased ==
    (Scanned /\ last.failed # {}) =>
        \A f \in last.failed : ~Recorded(loaded_modules, f) /\ ~Recorded(sys_modules, f)

\* the part of it about the registry's own table
C30_FailedUnitIsNotLoaded ==
    (Scanned /\ last.failed # {}) =>
        \A f \in last.failed : ~Recorded(loaded_modules, f)

\* the make of a service that directly follows an update of it
MakeAfterUpdate ==
    /\ last.op = "sm_update"
    /\ last.ok
    /\ last'.op = "sm_make"
    /\ last'.abstract = last.abstract

\* the make built the service's concrete with the service's params, and a
\* singleton is cached
MadeFrom(service, call, objs, cache) ==
    /\ call.ok
    /\ call.fresh
    /\ objs[call.ret.n].cls = ModuleTable[service.concrete.s]
    /\ call.bparams = service.params
    /\ service.type = "singleton" =>
            (service.abstract \in DOMAIN cache /\ cache[service.abstract] = call.ret)

\* C31: the make(k) that follows update(k, ...) builds a new instance of the
\* record's current concrete with exactly the record's current params, and
\* caches it when the record's type is singleton.
C31_UpdateReflectedByMake ==
    [][MakeAfterUpdate =>
            MadeFrom(registry[last.key], last', heap', instances')]_vars

\* the same for the updates that leave the service with params, of a
\* service whose name is its key in make and whose cache entry is empty or
\* reset by the update
C31_UpdateReflectedWhenReset ==
    [][(/\ MakeAfterUpdate
        /\ last'.key = last.key
        /\ registry[last.key].params # NoParams
        /\ (registry[last.key].type = "singleton"
            \/ last.key \notin DOMAIN instances
            \/ instances[last.key] = None)) =>
            MadeFrom(registry[last.key], last', heap', instances')]_vars

Reregistered(call) == call.op \in {"bind", "singleton"}

\* C32: bind() and singleton() leave the key with the concrete, the
\* lifecycle kind and the params of that very call, and a make of the key
\* that follows a registration without params hands the constructor no
\* param but those of the make itself.
C32_ReregistrationOverwrites ==
    [][/\ Reregistered(last') =>
            /\ bindings'[last'.key] = last'.concrete
            /\ is_singleton'[last'.key] = (last'.op = "singleton")
            /\ GetOr(binding_params', last'.key) = last'.params
       /\ (/\ Reregistered(last)
           /\ last.params = NoParams
           /\ last'.op = "make"
           /\ last'.key = last.key
           /\ last'.fresh) =>
            last'.bparams = last'.params]_vars

\* the part of it about the concrete and the lifecycle kind
C32_ReregistrationSetsRecipe ==
    [][Reregistered(last') =>
            /\ bindings'[last'.key] = last'.concrete
            /\ is_singleton'[last'.key] = (last'.op = "singleton")]_vars

\* the calls that push a snapshot of the attributes they find
Snapshots(call) ==
    \/ call.op \in Mutators \cup {"push_state", "pull"}
    \/ call.op = "pop_state" /\ call.popped # <<>>
    \/ call.op = "init" /\ call.arg # NoDict

\* the restore point under which such a call pushes it
PushedPoint(call) ==
    IF call.op \in {"pull", "pop_state", "init"} THEN RestorePoint("set_all", "")
    ELSE RestorePoint(call.op, call.key)

\* C33: a pop_state that directly follows a call which pushed a snapshot on
\* the same model takes that snapshot off the store: it removes the restore
\* point of that call and returns the attributes that call found.
C33_PopTakesMostRecentPush ==
    [][(Snapshots(last) /\ last'.op = "pop_state" /\ last'.m = last.m) =>
            /\ last'.popped = PushedPoint(last)
            /\ last'.arg = last.before]_vars

\* the same for the calls whose restore point was not in the store before
C33_PopTakesNewRestorePoint ==
    [][(/\ Snapshots(last)
        /\ last'.op = "pop_state"
        /\ last'.m = last.m
        /\ Len(states[last.m]) > 0
        /\ states[last.m][Len(states[last.m])].rp = PushedPoint(last)) =>
            /\ last'.popped = PushedPoint(last)
            /\ last'.arg = last.before]_vars

\* C34: pop_state on a store that holds snapshots leaves it with one
\* snapshot fewer; on an empty store it returns an empty mapping and changes
\* neither the attributes nor the states.
C34_PopShrinksStore ==
    [][last'.op = "pop_state" =>
            IF states[last'.m] # <<>>
            THEN Len(states'[last'.m]) = Len(states[last'.m]) - 1
            ELSE /\ last'.arg = NoDict
                 /\ attributes' = attributes
                 /\ states' = states]_vars

\* the part of it about the empty store
C34_PopOfEmptyStore ==
    [][(last'.op = "pop_state" /\ states[last'.m] = <<>>) =>
            /\ last'.arg = NoDict
            /\ attributes' = attributes
            /\ states' = states]_vars

\* C35: when make_callable of a pair (T, method), T a type reference
\* registered as a singleton under its canonical key, returns a method, the
\* method is bound to the instance cached under that key, which is what
\* make(T) returns.
C35_PairUsesCanonicalKey ==
    (/\ last.op = "make_callable"
     /\ last.form = "pair"
     /\ last.abstract.kind = "class"
     /\ last.err = ""
     /\ RegisteredSingleton(NormalizeKey(last.abstract))) =>
        /\ NormalizeKey(last.abstract) \in DOMAIN instances
        /\ last.ret = instances[NormalizeKey(last.abstract)]

\* the same for the handler "T's dotted name@method", which make resolves to
\* the canonical key
C35_AtUsesCanonicalKey ==
    (/\ last.op = "make_callable"
     /\ last.form = "at"
     /\ DottedClass(last.abstract)
     /\ last.err = ""
     /\ RegisteredSingleton(MakeKey(last.abstract))) =>
        /\ MakeKey(last.abstract) \in DOMAIN instances
        /\ last.ret = instances[MakeKey(last.abstract)]

\* a make with force_build has returned
Forced == last'.op = "make" /\ last'.force /\ last'.err = ""

\* the key of a forced make is bound to an object that was built before it
\* was registered
PrebuiltRecipe(call) ==
    /\ ~DottedClass(call.abstract)
    /\ call.key \in DOMAIN bindings
    /\ bindings[call.key].kind = "obj"

====
